---- MODULE Spec2Model ----
(***************************************************************************)
(* Model of the mail_composer crate: value objects, address book, the      *)
(* per-day start-time store, the template engine, the Thunderbird launcher *)
(* and the remote-work use case.                                           *)
(*                                                                         *)
(* Strings are sequences of one-character strings.  A Result is a record   *)
(* with ok = TRUE and val, or ok = FALSE with kind and msg.                *)
(***************************************************************************)
EXTENDS Integers, Sequences, FiniteSets, TLC

VARIABLES
    logDir,     \* the store's directory on disk: "absent", "dir" or "notdir"
    file,       \* the store file on disk: absent, or its JSON content
    written,    \* history: date key -> time of the most recent successful save
    book,       \* the loaded JsonAddressBookAdapter, or NotLoaded
    cfgFile,    \* the application configuration file on disk
    tmplFile,   \* the mail templates file on disk
    client,     \* the ThunderbirdMailClientAdapter the use case was built with
    today,      \* the local calendar day (index into the model's days)
    last        \* the most recent operation: its inputs, result and effects

vars == <<logDir, file, written, book, cfgFile, tmplFile, client, today, last>>

----------------------------------------------------------------------------
(* Bounds of the model *)

MaxDays == 2        \* calendar days the clock can show
MaxStrLen == 3      \* longest input string of the value-object specifications
MaxKeys == 2        \* longest key list given to resolve_many
MaxEntries == 2     \* longest address-book array

----------------------------------------------------------------------------
(* Strings *)

Contains(s, c) == \E i \in 1..Len(s) : s[i] = c

\* UTF-8 length of a character, so that String::len() counts bytes
Utf8Len(c) == IF c = "é" THEN 2 ELSE 1

RECURSIVE ByteLen(_)
ByteLen(s) == IF s = <<>> THEN 0 ELSE Utf8Len(Head(s)) + ByteLen(Tail(s))

RECURSIVE CountChar(_, _)
CountChar(s, c) ==
    IF s = <<>> THEN 0
    ELSE (IF Head(s) = c THEN 1 ELSE 0) + CountChar(Tail(s), c)

StartsWith(s, p) == Len(p) <= Len(s) /\ SubSeq(s, 1, Len(p)) = p

\* str::replace: every non-overlapping match of pat, left to right, one pass
RECURSIVE Replace(_, _, _)
Replace(s, pat, to) ==
    IF s = <<>> THEN <<>>
    ELSE IF StartsWith(s, pat)
         THEN to \o Replace(SubSeq(s, Len(pat) + 1, Len(s)), pat, to)
         ELSE <<Head(s)>> \o Replace(Tail(s), pat, to)

\* code points of the characters the model uses (byte order of String keys)
CharCode(c) ==
    CASE c = " " -> 32 [] c = "'" -> 39 [] c = "," -> 44 [] c = "-" -> 45
      [] c = "." -> 46 [] c = "0" -> 48 [] c = "1" -> 49 [] c = "2" -> 50
      [] c = "3" -> 51 [] c = "4" -> 52 [] c = "5" -> 53 [] c = "6" -> 54
      [] c = "7" -> 55 [] c = "8" -> 56 [] c = "9" -> 57 [] c = ":" -> 58
      [] c = "@" -> 64 [] c = "A" -> 65 [] c = "B" -> 66 [] c = "C" -> 67
      [] c = "a" -> 97 [] c = "b" -> 98 [] c = "c" -> 99 [] c = "x" -> 120
      [] OTHER -> 200

\* Ord for String: lexicographic by code point, a proper prefix is smaller
RECURSIVE StrLess(_, _)
StrLess(a, b) ==
    IF b = <<>> THEN FALSE
    ELSE IF a = <<>> THEN TRUE
    ELSE IF Head(a) = Head(b) THEN StrLess(Tail(a), Tail(b))
    ELSE CharCode(Head(a)) < CharCode(Head(b))

\* the keys of a BTreeMap in iteration order
RECURSIVE SortedKeys(_)
SortedKeys(S) ==
    IF S = {} THEN <<>>
    ELSE LET m == CHOOSE x \in S : \A y \in S : x = y \/ StrLess(x, y)
         IN  <<m>> \o SortedKeys(S \ {m})

\* all strings over an alphabet up to a length
StringsUpTo(alphabet, n) == UNION {[1..k -> alphabet] : k \in 0..n}

----------------------------------------------------------------------------
(* Results and errors *)

Ok(v) == [ok |-> TRUE, val |-> v]

\* AppError: kind, message and the detail the message embeds (<<>> if none)
Err(kind, text, detail) ==
    [ok |-> FALSE, kind |-> kind, msg |-> [text |-> text, detail |-> detail]]

None == [some |-> FALSE]
Some(v) == [some |-> TRUE, v |-> v]

----------------------------------------------------------------------------
(* EmailAddress *)

EmailAddressParseTrimmed(email_address) ==
    IF ~Contains(email_address, "@")
    THEN Err("UnavailableForLegalReasons", "invalid email address format",
             email_address)
    ELSE Ok(<<Replace(email_address, <<" ">>, <<>>)>>)

EmailAddressParse(email_address) ==
    IF ~Contains(email_address, "@")
    THEN Err("UnavailableForLegalReasons", "invalid email address format",
             email_address)
    ELSE Ok(<<email_address>>)

EmailAddressAsStr(e) == e[1]

----------------------------------------------------------------------------
(* WorkTime and WorkTimeRange *)

UsizeBits == 64

\* bit i (from 0) of a count; counts stay below 2^30
Bit(n, i) == IF i < 30 THEN (n \div (2 ^ i)) % 2 ELSE 0

\* !n on usize is the bitwise complement
UsizeNot(n) == [i \in 0..(UsizeBits - 1) |-> 1 - Bit(n, i)]

UsizeBitsEq(bits, k) == \A i \in 0..(UsizeBits - 1) : bits[i] = Bit(k, i)

\* a WorkTime::new that also wants digits around the colon
WorkTimeNewDigits(time) ==
    IF \/ ByteLen(time) # 5
       \/ Len(time) # 5
       \/ time[3] # ":"
       \/ \E i \in {1, 2, 4, 5} : CharCode(time[i]) < 48 \/ CharCode(time[i]) > 57
    THEN Err("UnavailableForLegalReasons", "invalid time format", <<>>)
    ELSE Ok(<<time>>)

\* `!time.matches(':').count() == 1 || time.len() != 5`
WorkTimeNew(time) ==
    IF UsizeBitsEq(UsizeNot(CountChar(time, ":")), 1) \/ ByteLen(time) # 5
    THEN Err("UnavailableForLegalReasons", "invalid time format", <<>>)
    ELSE Ok(<<time>>)

WorkTimeAsStr(t) == t[1]

Digit(n) == <<"0", "1", "2", "3", "4", "5", "6", "7", "8", "9">>[n + 1]

Pad2(n) == <<Digit((n \div 10) % 10), Digit(n % 10)>>

Pad4(n) == Pad2(n \div 100) \o Pad2(n % 100)

\* Local::now().format("%H:%M") for a clock reading [h, m]
WorkTimeNow(clock) == WorkTimeNew(Pad2(clock.h) \o <<":">> \o Pad2(clock.m))

WorkTimeRangeNew(start, end) == [start |-> start, end |-> end]

WorkTimeRangeToStringSwapped(r) ==
    WorkTimeAsStr(r.end) \o <<"-">> \o WorkTimeAsStr(r.start)

WorkTimeRangeToString(r) ==
    WorkTimeAsStr(r.start) \o <<"-">> \o WorkTimeAsStr(r.end)

----------------------------------------------------------------------------
(* Dates: NaiveDate and its Display form YYYY-MM-DD *)

\* the model's days are consecutive days of one month
DateOf(i) == [y |-> 2025, m |-> 1, d |-> 8 + i]

Days == 1..MaxDays

DateToString(date) ==
    Pad4(date.y) \o <<"-">> \o Pad2(date.m) \o <<"-">> \o Pad2(date.d)

\* clock readings of the model
Clocks == {[h |-> 9, m |-> 5], [h |-> 18, m |-> 30]}

----------------------------------------------------------------------------
(* StartTimeMap: BTreeMap<String, String> *)

StartTimeMapNew == <<>>

MapInsert(map, key, val) ==
    [k \in (DOMAIN map) \cup {key} |-> IF k = key THEN val ELSE map[k]]

\* a set_start_time that keeps an existing entry
SetStartTimeKeepOld(map, key, time) ==
    [k \in (DOMAIN map) \cup {key} |-> IF k \in DOMAIN map THEN map[k] ELSE time]

\* a set_start_time that starts a new map for the entry
SetStartTimeAlone(map, key, time) == MapInsert(StartTimeMapNew, key, time)

SetStartTime(map, key, time) == MapInsert(map, key, time)

GetStartTime(map, key) == IF key \in DOMAIN map THEN Some(map[key]) ELSE None

----------------------------------------------------------------------------
(* The store file as JSON *)

NoFile == [kind |-> "absent"]

\* a file whose text is not a JSON object of string members
Malformed == [kind |-> "malformed"]

\* serde_json::to_string_pretty of the map: one member per key, in key order
ToStringPretty(map) ==
    LET keys == SortedKeys(DOMAIN map)
    IN  [kind |-> "object",
         members |-> [i \in 1..Len(keys) |-> <<keys[i], map[keys[i]]>>]]

\* serde_json::from_str into the map: members inserted in text order
RECURSIVE InsertMembers(_, _)
InsertMembers(map, members) ==
    IF members = <<>> THEN map
    ELSE InsertMembers(MapInsert(map, Head(members)[1], Head(members)[2]),
                       Tail(members))

FromStr(content) ==
    IF content.kind = "object"
    THEN Ok(InsertMembers(StartTimeMapNew, content.members))
    ELSE Err("UnavailableForLegalReasons", "work time file parse failed", <<>>)

----------------------------------------------------------------------------
(* JsonWorkTimeAdapter: the store on disk *)

\* I/O faults the environment can inject, at most one per operation (the
\* first fault an operation meets ends it)
StoreFaults == {"none", "mkdir", "store_read", "write_open", "write_data"}

\* get_output_file_path: workspace_path, then ensure_directory_exists
GetOutputFilePath(dir, fault) ==
    IF dir = "notdir"
    THEN [res |-> Err("InternalServerError", "path is not a directory", <<>>),
          dir |-> dir]
    ELSE IF dir = "dir" THEN [res |-> Ok("path"), dir |-> dir]
    ELSE IF fault = "mkdir"
    THEN [res |-> Err("InternalServerError", "create directory failed", <<>>),
          dir |-> dir]
    ELSE [res |-> Ok("path"), dir |-> "dir"]

\* a load_start_time_map that reads the file whether it exists or not
LoadStartTimeMapAlwaysReads(dir, f, fault) ==
    LET p == GetOutputFilePath(dir, fault)
    IN  IF ~p.res.ok THEN [res |-> p.res, dir |-> p.dir]
        ELSE IF f = NoFile \/ fault = "store_read"
        THEN [res |-> Err("InternalServerError", "work time file read failed",
                          <<>>),
              dir |-> p.dir]
        ELSE [res |-> FromStr(f), dir |-> p.dir]

LoadStartTimeMap(dir, f, fault) ==
    LET p == GetOutputFilePath(dir, fault)
    IN  IF ~p.res.ok THEN [res |-> p.res, dir |-> p.dir]
        ELSE IF f = NoFile THEN [res |-> Ok(StartTimeMapNew), dir |-> p.dir]
        ELSE IF fault = "store_read"
        THEN [res |-> Err("InternalServerError", "work time file read failed",
                          <<>>),
              dir |-> p.dir]
        ELSE [res |-> FromStr(f), dir |-> p.dir]

\* fs::write: a failure to open leaves the file, a failure while writing
\* leaves it truncated
SaveStartTimeMap(dir, f, map, fault) ==
    LET p == GetOutputFilePath(dir, fault)
    IN  IF ~p.res.ok THEN [res |-> p.res, dir |-> p.dir, file |-> f]
        ELSE IF fault = "write_open"
        THEN [res |-> Err("InternalServerError", "work time file write failed",
                          <<>>),
              dir |-> p.dir, file |-> f]
        ELSE IF fault = "write_data"
        THEN [res |-> Err("InternalServerError", "work time file write failed",
                          <<>>),
              dir |-> p.dir, file |-> Malformed]
        ELSE [res |-> Ok(TRUE), dir |-> p.dir, file |-> ToStringPretty(map)]

SaveStartTime(dir, f, date, start_time, fault) ==
    LET l == LoadStartTimeMap(dir, f, fault)
    IN  IF ~l.res.ok THEN [res |-> l.res, dir |-> l.dir, file |-> f]
        ELSE SaveStartTimeMap(l.dir, f,
                 SetStartTime(l.res.val, DateToString(date),
                              WorkTimeAsStr(start_time)), fault)

\* a load_start_time that treats a stored value WorkTime::new rejects as no
\* entry
LoadStartTimeLenient(dir, f, date, fault) ==
    LET l == LoadStartTimeMap(dir, f, fault)
    IN  IF ~l.res.ok THEN l
        ELSE LET t == GetStartTime(l.res.val, DateToString(date))
             IN  IF t.some /\ WorkTimeNew(t.v).ok
                 THEN [res |-> Ok(Some(WorkTimeNew(t.v).val)), dir |-> l.dir]
                 ELSE [res |-> Ok(None), dir |-> l.dir]

LoadStartTime(dir, f, date, fault) ==
    LET l == LoadStartTimeMap(dir, f, fault)
    IN  IF ~l.res.ok THEN l
        ELSE LET t == GetStartTime(l.res.val, DateToString(date))
             IN  IF t.some
                 THEN LET w == WorkTimeNew(t.v)
                      IN  [res |-> IF w.ok THEN Ok(Some(w.val)) ELSE w,
                           dir |-> l.dir]
                 ELSE [res |-> Ok(None), dir |-> l.dir]

\* WorkTimePort's helpers: the local date, then the dated form
SaveTodayStartTime(dir, f, day, start_time, fault) ==
    SaveStartTime(dir, f, DateOf(day), start_time, fault)

LoadTodayStartTime(dir, f, day, fault) ==
    LoadStartTime(dir, f, DateOf(day), fault)

----------------------------------------------------------------------------
(* JsonAddressBookAdapter and AddressBookPort *)

\* the address-book file: unreadable, not a JSON array of entries, or an array
UnreadableBook == [kind |-> "io_error"]
MalformedBook == [kind |-> "malformed"]
BookArray(entries) == [kind |-> "array", entries |-> entries]

Entry(name, address) == [name |-> name, address |-> address]

\* the duplicate check: names.insert(&entry.name) over the entries in order
RECURSIVE HasDuplicateName(_, _)
HasDuplicateName(entries, names) ==
    IF entries = <<>> THEN FALSE
    ELSE IF Head(entries).name \in names THEN TRUE
    ELSE HasDuplicateName(Tail(entries), names \cup {Head(entries).name})

\* entries.iter().map(..).collect() into the BTreeMap
RECURSIVE CollectEntries(_, _)
CollectEntries(map, entries) ==
    IF entries = <<>> THEN map
    ELSE CollectEntries(MapInsert(map, Head(entries).name, Head(entries).address),
                        Tail(entries))

LoadFromAddressBookNoDupCheck(f) ==
    IF f.kind = "io_error"
    THEN Err("InternalServerError", "address book read failed", <<>>)
    ELSE IF f.kind = "malformed"
    THEN Err("UnavailableForLegalReasons", "address book parse failed", <<>>)
    ELSE Ok([loaded |-> TRUE, map |-> CollectEntries(<<>>, f.entries),
             entries |-> f.entries])

LoadFromAddressBookValidating(f) ==
    IF f.kind = "io_error"
    THEN Err("InternalServerError", "address book read failed", <<>>)
    ELSE IF f.kind = "malformed"
    THEN Err("UnavailableForLegalReasons", "address book parse failed", <<>>)
    ELSE IF HasDuplicateName(f.entries, {})
    THEN Err("UnavailableForLegalReasons", "duplicate name", <<>>)
    ELSE IF \E i \in 1..Len(f.entries) : ~EmailAddressParse(f.entries[i].address).ok
    THEN Err("UnavailableForLegalReasons", "invalid email address format", <<>>)
    ELSE Ok([loaded |-> TRUE, map |-> CollectEntries(<<>>, f.entries),
             entries |-> f.entries])

LoadFromAddressBook(f) ==
    IF f.kind = "io_error"
    THEN Err("InternalServerError", "address book read failed", <<>>)
    ELSE IF f.kind = "malformed"
    THEN Err("UnavailableForLegalReasons", "address book parse failed", <<>>)
    ELSE IF HasDuplicateName(f.entries, {})
    THEN Err("UnavailableForLegalReasons", "duplicate name", <<>>)
    ELSE Ok([loaded |-> TRUE, map |-> CollectEntries(<<>>, f.entries),
             entries |-> f.entries])

\* the adapter's names(): the map's keys in iteration order
BookNames(adapter) == SortedKeys(DOMAIN adapter.map)

Resolve(adapter, key_name) ==
    IF key_name \notin DOMAIN adapter.map
    THEN Err("NotFound", "no address for the given name", <<>>)
    ELSE EmailAddressParse(adapter.map[key_name])

\* a resolve_many that walks the map and keeps the names asked for
ResolveManyMapOrder(adapter, key_names) ==
    LET asked == {key_names[i] : i \in 1..Len(key_names)}
        hit == SelectSeq(BookNames(adapter), LAMBDA n : n \in asked)
    IN  IF \E n \in asked : ~Resolve(adapter, n).ok
        THEN Resolve(adapter, CHOOSE n \in asked : ~Resolve(adapter, n).ok)
        ELSE Ok([i \in 1..Len(hit) |-> Resolve(adapter, hit[i]).val])

\* key_names.iter().map(|k| self.resolve(k)).collect(): stops at the first Err
RECURSIVE ResolveMany(_, _)
ResolveMany(adapter, key_names) ==
    IF key_names = <<>> THEN Ok(<<>>)
    ELSE LET r == Resolve(adapter, Head(key_names))
         IN  IF ~r.ok THEN r
             ELSE LET rest == ResolveMany(adapter, Tail(key_names))
                  IN  IF ~rest.ok THEN rest ELSE Ok(<<r.val>> \o rest.val)

----------------------------------------------------------------------------
(* Subject and MailBody *)

\* char::is_whitespace for the characters the model uses
IsWhitespace(c) == c \in {" ", "\t", "\n", "\r", "\f"}

\* str::trim: whitespace removed from both ends
RECURSIVE TrimStart(_)
TrimStart(s) ==
    IF s # <<>> /\ IsWhitespace(Head(s)) THEN TrimStart(Tail(s)) ELSE s

RECURSIVE TrimEnd(_)
TrimEnd(s) ==
    IF s # <<>> /\ IsWhitespace(s[Len(s)])
    THEN TrimEnd(SubSeq(s, 1, Len(s) - 1)) ELSE s

Trim(s) == TrimEnd(TrimStart(s))

\* a Subject::new that keeps the trimmed text
SubjectNewTrimmed(subject) ==
    IF Trim(subject) = <<>>
    THEN Err("UnavailableForLegalReasons", "subject is empty", <<>>)
    ELSE Ok(<<Trim(subject)>>)

SubjectNew(subject) ==
    IF Trim(subject) = <<>>
    THEN Err("UnavailableForLegalReasons", "subject is empty", <<>>)
    ELSE Ok(<<subject>>)

SubjectAsStr(subject) == subject[1]

MailBodyNew(body) == <<body>>

MailBodyAsStr(body) == body[1]

\* a to_crlf that leaves an existing CR LF pair alone
ToCrlfKeepsPairs(body) ==
    Replace(Replace(body[1], <<"\r", "\n">>, <<"\n">>), <<"\n">>, <<"\r", "\n">>)

ToCrlf(body) == Replace(body[1], <<"\n">>, <<"\r", "\n">>)

----------------------------------------------------------------------------
(* MailConfig and MailTypeConfig: the template engine *)

TokDepartment == <<"{", "d", "e", "p", "a", "r", "t", "m", "e", "n", "t", "}">>
TokFrom == <<"{", "f", "r", "o", "m", "}">>
TokTime == <<"{", "t", "i", "m", "e", "}">>
TokWorkTime == <<"{", "w", "o", "r", "k", "_", "t", "i", "m", "e", "}">>

\* a get_mail_type that falls back on another mail type for an unknown key
GetMailTypeFallback(mail_config, mail_type) ==
    IF mail_type \in DOMAIN mail_config.mail_types
    THEN Some(mail_config.mail_types[mail_type])
    ELSE IF DOMAIN mail_config.mail_types # {}
    THEN Some(mail_config.mail_types[CHOOSE k \in DOMAIN mail_config.mail_types : TRUE])
    ELSE None

GetMailType(mail_config, mail_type) ==
    IF mail_type \in DOMAIN mail_config.mail_types
    THEN Some(mail_config.mail_types[mail_type])
    ELSE None

\* a format_subject that fills in the sender before the department
FormatSubjectFromFirst(cfg, department, from, time) ==
    Replace(Replace(Replace(cfg.subject_template, TokFrom, from),
                    TokDepartment, department),
            TokTime, time)

\* a format_subject that fills in the time first and the department last
FormatSubjectTimeFirst(cfg, department, from, time) ==
    Replace(Replace(Replace(cfg.subject_template, TokTime, time),
                    TokFrom, from),
            TokDepartment, department)

FormatSubject(cfg, department, from, time) ==
    Replace(Replace(Replace(cfg.subject_template, TokDepartment, department),
                    TokFrom, from),
            TokTime, time)

\* a format_body that blanks the token when there is no work time
FormatBodyNoneBlanks(cfg, work_time) ==
    IF work_time.some
    THEN Replace(cfg.body_template, TokWorkTime, work_time.v)
    ELSE Replace(cfg.body_template, TokWorkTime, <<>>)

FormatBody(cfg, work_time) ==
    IF work_time.some
    THEN Replace(cfg.body_template, TokWorkTime, work_time.v)
    ELSE cfg.body_template

\* the templates file: unreadable, not a JSON object, or an object whose
\* members are MailTypeConfig values or values of another shape
UnreadableFile == [kind |-> "io_error"]
MalformedFile == [kind |-> "malformed"]
TemplateObject(members) == [kind |-> "object", members |-> members]
ValidEntry(cfg) == [valid |-> TRUE, cfg |-> cfg]
InvalidEntry == [valid |-> FALSE]

\* the members that do not deserialize as a MailTypeConfig
InvalidKeys(f) ==
    IF f.kind = "object" THEN {k \in DOMAIN f.members : ~f.members[k].valid}
    ELSE {}

\* the loop over raw_config runs in the HashMap's iteration order, which is
\* unspecified: the first invalid member it meets can be any invalid member,
\* and `first_invalid` is the one this run meets first
FirstInvalidChoices(f) == IF InvalidKeys(f) = {} THEN {"-"} ELSE InvalidKeys(f)

\* JsonMailConfigAdapter::load_mail_config
LoadMailConfig(f, first_invalid, fault) ==
    IF f.kind = "io_error" \/ fault = "tmpl_read"
    THEN Err("NotFound", "mail_config.json read failed", <<>>)
    ELSE IF f.kind = "malformed"
    THEN Err("UnprocessableEntity", "mail_config.json parse failed", <<>>)
    ELSE IF InvalidKeys(f) # {}
    THEN Err("UnprocessableEntity", "mail type parse failed", first_invalid)
    ELSE Ok([mail_types |-> [k \in DOMAIN f.members |-> f.members[k].cfg]])

----------------------------------------------------------------------------
(* AppConfiguration and JsonConfigurationAdapter *)

Validate(config) ==
    IF Trim(config.from) = <<>>
    THEN Err("UnavailableForLegalReasons", "from is not set", <<>>)
    ELSE IF Trim(config.department) = <<>>
    THEN Err("UnavailableForLegalReasons", "department is not set", <<>>)
    ELSE IF Trim(config.thunderbird_exe) = <<>>
    THEN Err("UnavailableForLegalReasons", "thunderbird_exe is not set", <<>>)
    ELSE Ok(TRUE)

ConfigJson(value) == [kind |-> "json", value |-> value]

\* a load_configuration that validates the path as it is in the file
LoadConfigurationAsWritten(f, fault) ==
    IF f.kind = "io_error" \/ fault = "cfg_read"
    THEN Err("InternalServerError", "configuration file read failed", <<>>)
    ELSE IF f.kind = "malformed"
    THEN Err("UnavailableForLegalReasons", "configuration file parse failed",
             <<>>)
    ELSE IF ~Validate(f.value).ok THEN Validate(f.value) ELSE Ok(f.value)

LoadConfiguration(f, fault) ==
    IF f.kind = "io_error" \/ fault = "cfg_read"
    THEN Err("InternalServerError", "configuration file read failed", <<>>)
    ELSE IF f.kind = "malformed"
    THEN Err("UnavailableForLegalReasons", "configuration file parse failed",
             <<>>)
    ELSE LET config == [f.value EXCEPT !.thunderbird_exe =
                            Replace(f.value.thunderbird_exe, <<"\\">>, <<"/">>)]
             v == Validate(config)
         IN  IF ~v.ok THEN v ELSE Ok(config)

----------------------------------------------------------------------------
(* MailDraft and ThunderbirdMailClientAdapter *)

MailDraftNew(to, cc, subject, body) ==
    [to |-> to, cc |-> cc, subject |-> subject, body |-> body]

\* a join that lists each address once
RECURSIVE JoinDistinct(_, _)
JoinDistinct(addrs, seen) ==
    IF addrs = <<>> THEN <<>>
    ELSE IF Head(addrs) \in seen THEN JoinDistinct(Tail(addrs), seen)
    ELSE (IF seen = {} THEN <<>> ELSE <<",">>)
             \o EmailAddressAsStr(Head(addrs))
             \o JoinDistinct(Tail(addrs), seen \cup {Head(addrs)})

JoinAddressesDistinct(addrs) == JoinDistinct(addrs, {})

\* addresses.iter().map(as_str).collect::<Vec<_>>().join(",")
RECURSIVE JoinAddresses(_)
JoinAddresses(addrs) ==
    IF addrs = <<>> THEN <<>>
    ELSE IF Len(addrs) = 1 THEN EmailAddressAsStr(Head(addrs))
    ELSE EmailAddressAsStr(Head(addrs)) \o <<",">> \o JoinAddresses(Tail(addrs))

ToAddressesAsString(draft) == JoinAddresses(draft.to)

CcAddressesAsString(draft) == JoinAddresses(draft.cc)

\* an escape step that puts a backslash before each single quote
EscapeQuotesBackslash(s) == Replace(s, <<"'">>, <<"\\", "'">>)

EscapeQuotes(s) == Replace(s, <<"'">>, <<"'">>)

BuildComposeArg(draft) ==
    <<"f", "o", "r", "m", "a", "t", "=", "p", "l", "a", "i", "n", ",", "t", "o", "=", "'">>
        \o EscapeQuotes(ToAddressesAsString(draft))
        \o <<"'", ",", "c", "c", "=", "'">>
        \o EscapeQuotes(CcAddressesAsString(draft))
        \o <<"'", ",", "s", "u", "b", "j", "e", "c", "t", "=", "'">>
        \o EscapeQuotes(SubjectAsStr(draft.subject))
        \o <<"'", ",", "b", "o", "d", "y", "=", "'">>
        \o EscapeQuotes(ToCrlf(draft.body))
        \o <<"'">>

\* what compose_mail did to the outside world
NoLaunch == [spawn_calls |-> 0, children |-> 0, waited |-> FALSE,
             exit |-> None, printed |-> None]

\* the exit status of the child: non-zero when the environment makes it so
ExitStatus(fault) == IF fault = "exit_nonzero" THEN 1 ELSE 0

DryRunLine(exe, compose_arg) ==
    <<"[", "D", "R", "Y", "-", "R", "U", "N", "]", " ">> \o exe \o <<" ", "-", "c", "o", "m", "p", "o", "s", "e", " ">> \o compose_arg

ComposeMailDrySpawns(adapter, draft, is_dry_run, fault) ==
    [res |-> Ok(TRUE),
     launch |-> [spawn_calls |-> 1, children |-> 1, waited |-> TRUE,
                 exit |-> Some(ExitStatus(fault)),
                 printed |-> Some(DryRunLine(adapter.thunderbird_exe_path,
                                             BuildComposeArg(draft)))],
     argv |-> <<adapter.thunderbird_exe_path, "-compose", BuildComposeArg(draft)>>]

\* a compose_mail that spawns a second time when the first spawn fails
ComposeMailRetries(adapter, draft, is_dry_run, fault) ==
    LET compose_arg == BuildComposeArg(draft)
        argv == <<adapter.thunderbird_exe_path, "-compose", compose_arg>>
    IN  IF is_dry_run
        THEN [res |-> Ok(TRUE),
              launch |-> [NoLaunch EXCEPT !.printed =
                  Some(DryRunLine(adapter.thunderbird_exe_path, compose_arg))],
              argv |-> <<>>]
        ELSE IF fault = "wait"
        THEN [res |-> Err("InternalServerError", "thunderbird wait failed", <<>>),
              launch |-> [NoLaunch EXCEPT !.spawn_calls = 1, !.children = 1],
              argv |-> argv]
        ELSE [res |-> Ok(TRUE),
              launch |-> [NoLaunch EXCEPT
                              !.spawn_calls = IF fault = "spawn" THEN 2 ELSE 1,
                              !.children = 1, !.waited = TRUE,
                              !.exit = Some(ExitStatus(fault))],
              argv |-> argv]

\* a compose_mail that fails when the child exits with a non-zero status
ComposeMailChecksExit(adapter, draft, is_dry_run, fault) ==
    LET compose_arg == BuildComposeArg(draft)
        argv == <<adapter.thunderbird_exe_path, "-compose", compose_arg>>
    IN  IF is_dry_run
        THEN [res |-> Ok(TRUE),
              launch |-> [NoLaunch EXCEPT !.printed =
                  Some(DryRunLine(adapter.thunderbird_exe_path, compose_arg))],
              argv |-> <<>>]
        ELSE IF fault = "spawn"
        THEN [res |-> Err("InternalServerError", "thunderbird spawn failed", <<>>),
              launch |-> [NoLaunch EXCEPT !.spawn_calls = 1],
              argv |-> argv]
        ELSE IF fault = "wait"
        THEN [res |-> Err("InternalServerError", "thunderbird wait failed", <<>>),
              launch |-> [NoLaunch EXCEPT !.spawn_calls = 1, !.children = 1],
              argv |-> argv]
        ELSE [res |-> IF ExitStatus(fault) = 0 THEN Ok(TRUE)
                      ELSE Err("InternalServerError", "thunderbird exited with an error", <<>>),
              launch |-> [NoLaunch EXCEPT !.spawn_calls = 1, !.children = 1,
                                          !.waited = TRUE,
                                          !.exit = Some(ExitStatus(fault))],
              argv |-> argv]

ComposeMail(adapter, draft, is_dry_run, fault) ==
    LET compose_arg == BuildComposeArg(draft)
        argv == <<adapter.thunderbird_exe_path, "-compose", compose_arg>>
    IN  IF is_dry_run
        THEN [res |-> Ok(TRUE),
              launch |-> [NoLaunch EXCEPT !.printed =
                  Some(DryRunLine(adapter.thunderbird_exe_path, compose_arg))],
              argv |-> <<>>]
        ELSE IF fault = "spawn"
        THEN [res |-> Err("InternalServerError", "thunderbird spawn failed", <<>>),
              launch |-> [NoLaunch EXCEPT !.spawn_calls = 1],
              argv |-> argv]
        ELSE IF fault = "wait"
        THEN [res |-> Err("InternalServerError", "thunderbird wait failed", <<>>),
              launch |-> [NoLaunch EXCEPT !.spawn_calls = 1, !.children = 1],
              argv |-> argv]
        ELSE [res |-> Ok(TRUE),
              launch |-> [NoLaunch EXCEPT !.spawn_calls = 1, !.children = 1,
                                          !.waited = TRUE,
                                          !.exit = Some(ExitStatus(fault))],
              argv |-> argv]

----------------------------------------------------------------------------
(* RemoteWorkMailUseCase *)

\* what the environment can do to an invocation, at most one per invocation:
\* an I/O fault (the first fault an invocation meets ends it), or a mail
\* client that exits with a non-zero status
Faults ==
    StoreFaults \cup {"cfg_read", "tmpl_read", "spawn", "wait", "exit_nonzero"}

NoDraft == [built |-> FALSE]
Built(draft) == [built |-> TRUE, d |-> draft]
NotComposed == [launch |-> NoLaunch, argv |-> <<>>]

\* how an invocation ended, and what it left on disk and in the world
Outcome(res, step, dir, f, saved, now, draft, c) ==
    [res |-> res, step |-> step, dir |-> dir, file |-> f, saved |-> saved,
     now |-> now, draft |-> draft, launch |-> c.launch, argv |-> c.argv]

\* the opening of both operations: configuration, templates, the mail type
\* and the clock
LoadAndLookup(env, mail_type, clock, first_invalid, fault) ==
    LET config == LoadConfiguration(env.cfgFile, fault)
    IN  IF ~config.ok THEN [res |-> config, step |-> "config"]
        ELSE
    LET mail_config == LoadMailConfig(env.tmplFile, first_invalid, fault)
    IN  IF ~mail_config.ok THEN [res |-> mail_config, step |-> "templates"]
        ELSE
    LET type_config == GetMailType(mail_config.val, mail_type)
    IN  IF ~type_config.some
        THEN [res |-> Err("NotFound", "mail type config not found", mail_type),
              step |-> "lookup"]
        ELSE
    LET now_time == WorkTimeNow(clock)
    IN  IF ~now_time.ok THEN [res |-> now_time, step |-> "now"]
        ELSE [res |-> Ok([config |-> config.val, type_config |-> type_config.v,
                          now_time |-> now_time.val]),
              step |-> "now"]

\* the close of both operations: recipients, subject, body, draft, dispatch
ResolveAndCompose(env, config, type_config, time, work_time, is_dry_run, fault) ==
    LET to_addresses == ResolveMany(env.book, type_config.to_names)
    IN  IF ~to_addresses.ok
        THEN [res |-> to_addresses, step |-> "resolve_to", draft |-> NoDraft,
              c |-> NotComposed]
        ELSE
    LET cc_addresses == ResolveMany(env.book, type_config.cc_names)
    IN  IF ~cc_addresses.ok
        THEN [res |-> cc_addresses, step |-> "resolve_cc", draft |-> NoDraft,
              c |-> NotComposed]
        ELSE
    LET subject == SubjectNew(FormatSubject(type_config, config.department,
                                            config.from, time))
    IN  IF ~subject.ok
        THEN [res |-> subject, step |-> "subject", draft |-> NoDraft,
              c |-> NotComposed]
        ELSE
    LET body == MailBodyNew(FormatBody(type_config, work_time))
        draft == MailDraftNew(to_addresses.val, cc_addresses.val, subject.val,
                              body)
        c == ComposeMail(env.client, draft, is_dry_run, fault)
    IN  [res |-> c.res, step |-> IF c.res.ok THEN "done" ELSE "compose",
         draft |-> Built(draft), c |-> c]

\* a work-start that records the clock-in only once the mail was composed
SendRemoteWorkStartSaveLast(env, is_dry_run, clock, first_invalid, fault) ==
    LET p == LoadAndLookup(env, "remote_work_start", clock, first_invalid, fault)
    IN  IF ~p.res.ok
        THEN Outcome(p.res, p.step, env.dir, env.file, FALSE, <<>>, NoDraft,
                     NotComposed)
        ELSE
    LET now_time == p.res.val.now_time
        t == ResolveAndCompose(env, p.res.val.config, p.res.val.type_config,
                               WorkTimeAsStr(now_time), None, is_dry_run, fault)
        sv == SaveTodayStartTime(env.dir, env.file, env.day, now_time, fault)
    IN  IF ~t.res.ok
        THEN Outcome(t.res, t.step, env.dir, env.file, FALSE,
                     WorkTimeAsStr(now_time), t.draft, t.c)
        ELSE Outcome(sv.res, IF sv.res.ok THEN "done" ELSE "save", sv.dir,
                     sv.file, sv.res.ok, WorkTimeAsStr(now_time), t.draft, t.c)

SendRemoteWorkStart(env, is_dry_run, clock, first_invalid, fault) ==
    LET p == LoadAndLookup(env, "remote_work_start", clock, first_invalid, fault)
    IN  IF ~p.res.ok
        THEN Outcome(p.res, p.step, env.dir, env.file, FALSE, <<>>, NoDraft,
                     NotComposed)
        ELSE
    LET now_time == p.res.val.now_time
        sv == SaveTodayStartTime(env.dir, env.file, env.day, now_time, fault)
    IN  IF ~sv.res.ok
        THEN Outcome(sv.res, "save", sv.dir, sv.file, FALSE,
                     WorkTimeAsStr(now_time), NoDraft, NotComposed)
        ELSE
    LET t == ResolveAndCompose(env, p.res.val.config, p.res.val.type_config,
                               WorkTimeAsStr(now_time), None, is_dry_run, fault)
    IN  Outcome(t.res, t.step, sv.dir, sv.file, TRUE, WorkTimeAsStr(now_time),
                t.draft, t.c)

Sentinel == <<"-", "-", ":", "-", "-">>

\* Result::unwrap
Unwrap(r) == IF r.ok THEN Ok(r.val) ELSE [ok |-> FALSE, kind |-> "panic", msg |-> r.msg]

\* a work-end that records its own time as today's start
SendRemoteWorkEndSaves(env, is_dry_run, clock, first_invalid, fault) ==
    LET p == LoadAndLookup(env, "remote_work_end", clock, first_invalid, fault)
    IN  IF ~p.res.ok
        THEN Outcome(p.res, p.step, env.dir, env.file, FALSE, <<>>, NoDraft,
                     NotComposed)
        ELSE
    LET sv == SaveTodayStartTime(env.dir, env.file, env.day,
                                 p.res.val.now_time, fault)
    IN  Outcome(sv.res, IF sv.res.ok THEN "done" ELSE "save", sv.dir, sv.file,
                FALSE, WorkTimeAsStr(p.res.val.now_time), NoDraft, NotComposed)

SendRemoteWorkEnd(env, is_dry_run, clock, first_invalid, fault) ==
    LET p == LoadAndLookup(env, "remote_work_end", clock, first_invalid, fault)
    IN  IF ~p.res.ok
        THEN Outcome(p.res, p.step, env.dir, env.file, FALSE, <<>>, NoDraft,
                     NotComposed)
        ELSE
    LET end_time == p.res.val.now_time
        ld == LoadTodayStartTime(env.dir, env.file, env.day, fault)
    IN  IF ~ld.res.ok
        THEN Outcome(ld.res, "load", ld.dir, env.file, FALSE,
                     WorkTimeAsStr(end_time), NoDraft, NotComposed)
        ELSE
    LET start_time == IF ld.res.val.some THEN Ok(ld.res.val.v)
                      ELSE Unwrap(WorkTimeNew(Sentinel))
    IN  IF ~start_time.ok
        THEN Outcome(start_time, "sentinel", ld.dir, env.file, FALSE,
                     WorkTimeAsStr(end_time), NoDraft, NotComposed)
        ELSE
    LET work_range == WorkTimeRangeNew(start_time.val, end_time)
        t == ResolveAndCompose(env, p.res.val.config, p.res.val.type_config,
                               WorkTimeAsStr(end_time),
                               Some(WorkTimeRangeToString(work_range)),
                               is_dry_run, fault)
    IN  Outcome(t.res, t.step, ld.dir, env.file, FALSE, WorkTimeAsStr(end_time),
                t.draft, t.c)

----------------------------------------------------------------------------
(* Values of the variables a specification does not use *)

NotLoaded == [loaded |-> FALSE]
NoCall == [op |-> "none"]
NoConfigFile == [kind |-> "absent"]
NoClient == [thunderbird_exe_path |-> <<>>]

----------------------------------------------------------------------------
(* SpecEmail: EmailAddress::parse over all short strings *)

EmailAlphabet == {"a", "b", "@", ".", " "}

EmailInputs == StringsUpTo(EmailAlphabet, MaxStrLen)

InitEmail ==
    /\ logDir = "absent" /\ file = NoFile /\ written = <<>>
    /\ book = NotLoaded /\ cfgFile = NoConfigFile /\ tmplFile = NoConfigFile
    /\ client = NoClient
    /\ today = 1 /\ last = NoCall

EmailParse ==
    /\ \E s \in EmailInputs :
          last' = [op |-> "parse", arg |-> s, res |-> EmailAddressParse(s)]
    /\ UNCHANGED <<logDir, file, written, book, cfgFile, tmplFile, client, today>>

NextEmail == EmailParse

SpecEmail == InitEmail /\ [][NextEmail]_vars

\* C10: EmailAddress::parse(s) succeeds iff s contains at least one '@'; on
\* success as_str() is exactly s; on failure the kind is
\* UnavailableForLegalReasons.
C10_ParseIffAt ==
    last.op = "parse" =>
        /\ last.res.ok <=> (CountChar(last.arg, "@") >= 1)
        /\ last.res.ok => EmailAddressAsStr(last.res.val) = last.arg
        /\ ~last.res.ok => last.res.kind = "UnavailableForLegalReasons"

\* an address with '@' and a blank was parsed and accepted
C10_Witness ==
    /\ last.op = "parse" /\ last.res.ok
    /\ Contains(last.arg, " ") /\ Len(last.arg) >= 3

\* a non-empty string without '@' was parsed and rejected
C10_WitnessReject ==
    last.op = "parse" /\ ~last.res.ok /\ Len(last.arg) >= 2

----------------------------------------------------------------------------
(* SpecStore: the store's operations on a store file left by earlier saves *)

\* strings handed to WorkTime::new by the callers of the store
StoreTimeInputs ==
    { <<"0", "9", ":", "0", "0">>, <<"0", "9", ":", "3", "0">>,
      <<"9", ":", "0", "0">> }

\* the WorkTime values that exist
StoreTimes == {WorkTimeNew(s).val : s \in {x \in StoreTimeInputs : WorkTimeNew(x).ok}}

\* history entries: no save yet, or the time of the latest successful save and
\* whether that save replaced a different time
NoSave == [some |-> FALSE]
Saved(t, over) == [some |-> TRUE, v |-> t, over |-> over]

RecordSave(hist, day, t) ==
    [hist EXCEPT ![day] = Saved(t, hist[day].some /\ hist[day].v # t)]

\* the map a history stands for
MapOfHistory(hist) ==
    LET ds == {i \in DOMAIN hist : hist[i].some}
    IN  [k \in {DateToString(DateOf(i)) : i \in ds} |->
            hist[CHOOSE i \in ds : DateToString(DateOf(i)) = k].v]

InitStore ==
    /\ \E d \in {"absent", "dir", "notdir"}, hasFile \in BOOLEAN,
          h \in [Days -> {NoSave} \cup {Saved(WorkTimeAsStr(t), FALSE) : t \in StoreTimes}] :
          /\ d # "dir" => ~hasFile
          /\ ~hasFile => \A i \in Days : ~h[i].some
          /\ logDir = d
          /\ file = IF hasFile THEN ToStringPretty(MapOfHistory(h)) ELSE NoFile
          /\ written = h
    /\ book = NotLoaded /\ cfgFile = NoConfigFile /\ tmplFile = NoConfigFile
    /\ client = NoClient
    /\ today = 1 /\ last = NoCall

StoreSave ==
    /\ \E day \in Days, t \in StoreTimes, fault \in StoreFaults :
          LET r == SaveStartTime(logDir, file, DateOf(day), t, fault)
          IN  /\ logDir' = r.dir
              /\ file' = r.file
              /\ written' = IF r.res.ok
                            THEN RecordSave(written, day, WorkTimeAsStr(t))
                            ELSE written
              /\ last' = [op |-> "save", day |-> day, res |-> r.res]
    /\ UNCHANGED <<book, cfgFile, tmplFile, client, today>>

StoreSaveToday ==
    /\ \E t \in StoreTimes, fault \in StoreFaults :
          LET r == SaveTodayStartTime(logDir, file, today, t, fault)
          IN  /\ logDir' = r.dir
              /\ file' = r.file
              /\ written' = IF r.res.ok
                            THEN RecordSave(written, today, WorkTimeAsStr(t))
                            ELSE written
              /\ last' = [op |-> "save_today", day |-> today, res |-> r.res]
    /\ UNCHANGED <<book, cfgFile, tmplFile, client, today>>

StoreLoad ==
    /\ \E day \in Days, fault \in StoreFaults :
          LET r == LoadStartTime(logDir, file, DateOf(day), fault)
          IN  /\ logDir' = r.dir
              /\ last' = [op |-> "load", day |-> day, fault |-> fault,
                          res |-> r.res]
    /\ UNCHANGED <<file, written, book, cfgFile, tmplFile, client, today>>

StoreLoadToday ==
    /\ \E fault \in StoreFaults :
          LET r == LoadTodayStartTime(logDir, file, today, fault)
          IN  /\ logDir' = r.dir
              /\ last' = [op |-> "load_today", day |-> today, fault |-> fault,
                          res |-> r.res]
    /\ UNCHANGED <<file, written, book, cfgFile, tmplFile, client, today>>

\* midnight passes
NextDay ==
    /\ today < MaxDays
    /\ today' = today + 1
    /\ UNCHANGED <<logDir, file, written, book, cfgFile, tmplFile, client, last>>

NextStore ==
    \/ StoreSave
    \/ StoreSaveToday
    \/ StoreLoad
    \/ StoreLoadToday
    \/ NextDay

SpecStore == InitStore /\ [][NextStore]_vars

\* C1: after any sequence of successful saves, a load of a date returns the
\* time of the most recent successful save on that date and none for a date
\* never saved (the dated form and the today helpers alike); a load that
\* meets no fault on an intact store succeeds.
C1_StoreRoundTrip ==
    last.op \in {"load", "load_today"} =>
        /\ last.res.ok =>
              IF written[last.day].some
              THEN /\ last.res.val.some
                   /\ WorkTimeAsStr(last.res.val.v) = written[last.day].v
              ELSE ~last.res.val.some
        /\ (last.fault = "none" /\ logDir # "notdir" /\ file # Malformed)
              => last.res.ok

\* today's load returned the time of a save that replaced a different time,
\* while another date has never been saved
C1_Witness ==
    /\ last.op = "load_today" /\ last.res.ok /\ last.res.val.some
    /\ written[last.day].some /\ written[last.day].over
    /\ \E d \in Days : ~written[d].some

\* a dated load of a date never saved returned none from an existing file
C1_WitnessNone ==
    /\ last.op = "load" /\ last.res.ok /\ ~last.res.val.some
    /\ file # NoFile /\ \E d \in Days : written[d].some

----------------------------------------------------------------------------
(* SpecBook: loading an address book and resolving names against it *)

BookNameInputs == {<<"A">>, <<"a">>, <<"B">>}

BookAddressInputs == {<<"a", "@", "x">>, <<"b", "@", "x">>, <<"a", "x">>}

BookEntryInputs == {Entry(n, a) : n \in BookNameInputs, a \in BookAddressInputs}

BookFileInputs ==
    {UnreadableBook, MalformedBook}
        \cup {BookArray(es) : es \in StringsUpTo(BookEntryInputs, MaxEntries)}

KeyListInputs == StringsUpTo(BookNameInputs, MaxKeys)

InitBook ==
    /\ logDir = "absent" /\ file = NoFile /\ written = <<>>
    /\ book = NotLoaded /\ cfgFile = NoConfigFile /\ tmplFile = NoConfigFile
    /\ client = NoClient
    /\ today = 1 /\ last = NoCall

BookLoad ==
    /\ \E f \in BookFileInputs :
          LET r == LoadFromAddressBook(f)
          IN  /\ book' = IF r.ok THEN r.val ELSE NotLoaded
              /\ last' = [op |-> "load_book", arg |-> f, res |-> r]
    /\ UNCHANGED <<logDir, file, written, cfgFile, tmplFile, client, today>>

BookResolve ==
    /\ book.loaded
    /\ \E k \in BookNameInputs :
          last' = [op |-> "resolve", key |-> k, res |-> Resolve(book, k)]
    /\ UNCHANGED <<logDir, file, written, book, cfgFile, tmplFile, client, today>>

BookResolveMany ==
    /\ book.loaded
    /\ \E ks \in KeyListInputs :
          last' = [op |-> "resolve_many", keys |-> ks,
                   res |-> ResolveMany(book, ks)]
    /\ UNCHANGED <<logDir, file, written, book, cfgFile, tmplFile, client, today>>

NextBook ==
    \/ BookLoad
    \/ BookResolve
    \/ BookResolveMany

SpecBook == InitBook /\ [][NextBook]_vars

\* the first index of a key list whose resolve fails, 0 if none does
FirstFailing(adapter, ks) ==
    IF \A i \in 1..Len(ks) : Resolve(adapter, ks[i]).ok THEN 0
    ELSE CHOOSE i \in 1..Len(ks) :
            /\ ~Resolve(adapter, ks[i]).ok
            /\ \A j \in 1..(i - 1) : Resolve(adapter, ks[j]).ok

\* C7: resolve_many(ks) returns exactly len(ks) addresses, the i-th being
\* resolve(ks[i]) (input order, duplicates kept), or fails with the error of
\* the first key whose resolve fails; never a partial list.
C7_ResolveManyOrder ==
    last.op = "resolve_many" =>
        LET ks == last.keys
            ff == FirstFailing(book, ks)
        IN  IF ff = 0
            THEN /\ last.res.ok
                 /\ Len(last.res.val) = Len(ks)
                 /\ \A i \in 1..Len(ks) : last.res.val[i] = Resolve(book, ks[i]).val
            ELSE /\ ~last.res.ok
                 /\ last.res = Resolve(book, ks[ff])

\* two different names were resolved in the reverse of the map's order
C7_Witness ==
    /\ last.op = "resolve_many" /\ last.res.ok /\ Len(last.keys) = 2
    /\ StrLess(last.keys[2], last.keys[1])
    /\ last.res.val[1] # last.res.val[2]

\* a list whose first key resolves and whose second does not failed
C7_WitnessFail ==
    /\ last.op = "resolve_many" /\ ~last.res.ok /\ Len(last.keys) = 2
    /\ Resolve(book, last.keys[1]).ok

\* the names of an entry array that occur more than once
RepeatedNames(entries) ==
    {entries[i].name : i \in {x \in 1..Len(entries) :
        \E y \in 1..Len(entries) : y # x /\ entries[y].name = entries[x].name}}

\* C8: load fails with UnavailableForLegalReasons whenever two entries share a
\* name; a loaded book has pairwise distinct names and its map holds exactly
\* one entry per input entry, with that entry's address.
C8_UniqueNames ==
    (last.op = "load_book" /\ last.arg.kind = "array") =>
        LET es == last.arg.entries
        IN  /\ RepeatedNames(es) # {} =>
                  ~last.res.ok /\ last.res.kind = "UnavailableForLegalReasons"
            /\ last.res.ok =>
                  /\ \A i, j \in 1..Len(es) : i # j => es[i].name # es[j].name
                  /\ Cardinality(DOMAIN book.map) = Len(es)
                  /\ \A i \in 1..Len(es) : book.map[es[i].name] = es[i].address

\* an array of two entries was loaded
C8_Witness ==
    /\ last.op = "load_book" /\ last.res.ok /\ Len(last.arg.entries) = 2

\* an array with a repeated name and different addresses was rejected
C8_WitnessDup ==
    /\ last.op = "load_book" /\ last.arg.kind = "array" /\ ~last.res.ok
    /\ Len(last.arg.entries) = 2
    /\ last.arg.entries[1].address # last.arg.entries[2].address

\* C9: resolve(key) fails with NotFound iff key is not exactly one of the
\* stored names; for a stored name it returns the stored string as an
\* EmailAddress when that string contains '@' and fails with
\* UnavailableForLegalReasons otherwise; loading rejects no entry for its
\* address.
C9_ResolveOutcomes ==
    /\ last.op = "resolve" =>
          LET stored == {i \in 1..Len(book.entries) : book.entries[i].name = last.key}
          IN  /\ (~last.res.ok /\ last.res.kind = "NotFound") <=> stored = {}
              /\ \A i \in stored :
                    IF CountChar(book.entries[i].address, "@") >= 1
                    THEN /\ last.res.ok
                         /\ EmailAddressAsStr(last.res.val) = book.entries[i].address
                    ELSE /\ ~last.res.ok
                         /\ last.res.kind = "UnavailableForLegalReasons"
    /\ (last.op = "load_book" /\ last.arg.kind = "array"
            /\ RepeatedNames(last.arg.entries) = {}) => last.res.ok

\* a stored name whose address has no '@' was resolved and rejected
C9_Witness ==
    /\ last.op = "resolve" /\ ~last.res.ok
    /\ last.res.kind = "UnavailableForLegalReasons"

\* a name differing only in case from a stored name was not found
C9_WitnessCase ==
    /\ last.op = "resolve" /\ ~last.res.ok /\ last.res.kind = "NotFound"
    /\ last.key = <<"a">> /\ <<"A">> \in DOMAIN book.map

\* a stored name with a good address was resolved
C9_WitnessOk ==
    last.op = "resolve" /\ last.res.ok

----------------------------------------------------------------------------
(* Spec: work-start and work-end invocations over the files on disk *)

NameA == <<"A">>
NameB == <<"B">>
NameC == <<"C">>

\* address books the use case can be built with
UseCaseBookFiles ==
    { BookArray(<<Entry(NameA, <<"a", "@", "x">>), Entry(NameB, <<"b", "@", "x">>)>>),
      BookArray(<<Entry(NameB, <<"b", "@", "x">>), Entry(NameA, <<"a", "x">>)>>),
      BookArray(<<Entry(NameA, <<"a", "@", "x">>)>>) }

UseCaseBooks ==
    {LoadFromAddressBook(f).val :
        f \in {x \in UseCaseBookFiles : LoadFromAddressBook(x).ok}}

AppConfig(from, department, thunderbird_exe) ==
    [from |-> from, department |-> department,
     thunderbird_exe |-> thunderbird_exe,
     log_dir |-> <<"l">>, input_dir |-> <<"i">>,
     address_book_file |-> <<"a">>, output_dir |-> <<"o">>,
     start_time_file |-> <<"s">>]

GoodConfigFile == ConfigJson(AppConfig(<<"T">>, <<"D">>, <<"c", "\\", "t", "b">>))

\* a configuration whose executable needs no normalizing
PlainExeConfigFile == ConfigJson(AppConfig(<<"T">>, <<"D">>, <<"t">>))

BadConfigFiles ==
    { UnreadableFile, MalformedFile,
      ConfigJson(AppConfig(<<" ">>, <<"D">>, <<"c", "\\", "t", "b">>)) }

MailType(to_names, cc_names, subject_template, body_template) ==
    [to_names |-> to_names, cc_names |-> cc_names,
     subject_template |-> subject_template, body_template |-> body_template]

StartType == MailType(<<NameA>>, <<NameB>>,
    <<"[", "{", "d", "e", "p", "a", "r", "t", "m", "e", "n", "t", "}", "]", " ", "{", "f", "r", "o", "m", "}", " ", "s", " ", "{", "t", "i", "m", "e", "}">>,
    <<"a", "t", " ", "{", "t", "i", "m", "e", "}", "\n", "{", "w", "o", "r", "k", "_", "t", "i", "m", "e", "}">>)

EndType == MailType(<<NameB, NameA, NameB>>, <<>>,
    <<"{", "f", "r", "o", "m", "}", " ", "e", " ", "{", "t", "i", "m", "e", "}">>,
    <<"w", " ", "{", "w", "o", "r", "k", "_", "t", "i", "m", "e", "}", " ", "{", "w", "o", "r", "k", "_", "t", "i", "m", "e", "}", ".">>)

BlankStartType == MailType(<<NameA>>, <<NameA>>, <<" ">>, <<>>)

OtherEndType == MailType(<<NameA>>, <<NameC>>, <<"{", "t", "i", "m", "e", "}">>, <<"n", "o">>)

BothKeys(start, end) ==
    [k \in {"remote_work_start", "remote_work_end"} |->
        IF k = "remote_work_start" THEN ValidEntry(start) ELSE ValidEntry(end)]

GoodTemplateFiles ==
    { TemplateObject(BothKeys(StartType, EndType)),
      TemplateObject(BothKeys(BlankStartType, OtherEndType)) }

BadTemplateFiles ==
    { UnreadableFile, MalformedFile,
      TemplateObject([k \in {"remote_work_end"} |-> ValidEntry(EndType)]),
      TemplateObject([k \in {"remote_work_start"} |-> ValidEntry(StartType)]),
      TemplateObject([k \in {"remote_work_start", "remote_work_end"} |->
          IF k = "remote_work_start" THEN ValidEntry(StartType) ELSE InvalidEntry]) }

MainScenario ==
    [cfg |-> GoodConfigFile, tmpl |-> TemplateObject(BothKeys(StartType, EndType)),
     book |-> LoadFromAddressBook(
                  BookArray(<<Entry(NameA, <<"a", "@", "x">>), Entry(NameB, <<"b", "@", "x">>)>>)).val]

\* the files and adapters of one installation
Scenarios ==
    {[cfg |-> GoodConfigFile, tmpl |-> t, book |-> b] :
        t \in GoodTemplateFiles, b \in UseCaseBooks}
    \cup {[MainScenario EXCEPT !.tmpl = t] : t \in BadTemplateFiles}
    \cup {[MainScenario EXCEPT !.cfg = c] :
            c \in BadConfigFiles \cup {PlainExeConfigFile}}

EarlierTime == <<"0", "8", ":", "1", "5">>

NoHistory == [d \in Days |-> NoSave]

EarlierSave(d) == [NoHistory EXCEPT ![d] = Saved(EarlierTime, FALSE)]

\* the store as the first invocation finds it: its directory, its file, and
\* the history of saves that left the file (none for a file put there by hand)
InitialStores ==
    { [dir |-> "absent", file |-> NoFile, hist |-> NoHistory],
      [dir |-> "notdir", file |-> NoFile, hist |-> NoHistory],
      [dir |-> "dir", file |-> NoFile, hist |-> NoHistory],
      [dir |-> "dir", file |-> ToStringPretty(StartTimeMapNew), hist |-> NoHistory],
      [dir |-> "dir", file |-> Malformed, hist |-> NoHistory],
      [dir |-> "dir",
       file |-> ToStringPretty(SetStartTime(StartTimeMapNew,
                    DateToString(DateOf(1)), <<"9", ":", "0", "0">>)),
       hist |-> NoHistory] }
    \cup {[dir |-> "dir", file |-> ToStringPretty(MapOfHistory(EarlierSave(d))),
           hist |-> EarlierSave(d)] : d \in Days}

\* the store every installation other than the main one starts with
PlainStore ==
    [dir |-> "dir", file |-> ToStringPretty(MapOfHistory(EarlierSave(1))),
     hist |-> EarlierSave(1)]

\* ThunderbirdMailClientAdapter::new
ThunderbirdMailClientAdapterNew(thunderbird_exe_path) ==
    [thunderbird_exe_path |-> thunderbird_exe_path]

\* the mail client the use case is built with: an adapter constructed with
\* an executable name of its own, whatever the configuration file says
Clients == {ThunderbirdMailClientAdapterNew(<<"t", "b">>)}

Env == [dir |-> logDir, file |-> file, book |-> book, cfgFile |-> cfgFile,
        tmplFile |-> tmplFile, client |-> client, day |-> today]

Init ==
    /\ \E sc \in Scenarios, st \in InitialStores :
          /\ sc # MainScenario => st = PlainStore
          /\ cfgFile = sc.cfg
          /\ tmplFile = sc.tmpl
          /\ book = sc.book
          /\ logDir = st.dir
          /\ file = st.file
          /\ written = st.hist
    /\ client \in Clients
    /\ today = 1
    /\ last = NoCall

\* the record of an invocation
Invocation(op, is_dry_run, day, o) ==
    [op |-> op, dry |-> is_dry_run, day |-> day, res |-> o.res, step |-> o.step, saved |-> o.saved,
     now |-> o.now, draft |-> o.draft, launch |-> o.launch, argv |-> o.argv]

WorkStart ==
    /\ \E is_dry_run \in BOOLEAN, clock \in Clocks, fault \in Faults,
          first_invalid \in FirstInvalidChoices(tmplFile) :
          \E o \in {SendRemoteWorkStart(Env, is_dry_run, clock, first_invalid, fault)} :
              /\ logDir' = o.dir
              /\ file' = o.file
              /\ written' = IF o.saved
                            THEN [written EXCEPT ![today] = Saved(o.now, FALSE)]
                            ELSE written
              /\ last' = Invocation("start", is_dry_run, today, o)
    /\ UNCHANGED <<book, cfgFile, tmplFile, client, today>>

WorkEnd ==
    /\ \E is_dry_run \in BOOLEAN, clock \in Clocks, fault \in Faults,
          first_invalid \in FirstInvalidChoices(tmplFile) :
          \E o \in {SendRemoteWorkEnd(Env, is_dry_run, clock, first_invalid, fault)} :
              /\ logDir' = o.dir
              /\ file' = o.file
              /\ written' = written
              /\ last' = Invocation("end", is_dry_run, today, o)
    /\ UNCHANGED <<book, cfgFile, tmplFile, client, today>>

Next ==
    \/ WorkStart
    \/ WorkEnd
    \/ NextDay

Spec == Init /\ [][Next]_vars

----------------------------------------------------------------------------
(* Claims about the use case *)

\* the stored map holds `time` under the key of day `d`
StoreHolds(f, d, time) ==
    /\ FromStr(f).ok
    /\ GetStartTime(FromStr(f).val, DateToString(DateOf(d))) = Some(time)

\* the stored map parses and has no entry for day `d`, or there is no file
StoreLacks(f, d) ==
    \/ f = NoFile
    \/ /\ FromStr(f).ok
       /\ ~GetStartTime(FromStr(f).val, DateToString(DateOf(d))).some

\* C2: a work-start that fails at any step after the save (recipient
\* resolution, subject, launcher) leaves today's date mapped to the time it
\* took; if it failed before the launcher step the mail client was never
\* invoked.
C2_SaveBeforeResolve ==
    (/\ last.op = "start" /\ ~last.res.ok
     /\ last.step \in {"resolve_to", "resolve_cc", "subject", "compose"}) =>
        /\ StoreHolds(file, last.day, last.now)
        /\ last.step # "compose" => last.launch = NoLaunch

\* a work-start failed on an unknown cc recipient after creating the file
C2_Witness ==
    /\ last.op = "start" /\ ~last.res.ok /\ last.step = "resolve_cc"
    /\ last.res.kind = "NotFound" /\ written[last.day].some

\* a live work-start failed in the launcher
C2_WitnessLauncher ==
    /\ last.op = "start" /\ ~last.res.ok /\ last.step = "compose"

\* a work-start failed on an empty subject
C2_WitnessSubject ==
    /\ last.op = "start" /\ ~last.res.ok /\ last.step = "subject"

\* C3: a dry run never spawns the mail client and, once a draft is built,
\* succeeds and prints the command; a dry-run work-start still stores today's
\* date with the current time.
C3_DryRun ==
    (last.op \in {"start", "end"} /\ last.dry) =>
        /\ last.launch.spawn_calls = 0 /\ last.launch.children = 0
        /\ last.draft.built => (last.res.ok /\ last.launch.printed.some)
        /\ (last.op = "start" /\ last.res.ok) =>
              StoreHolds(file, last.day, last.now)

\* a dry-run work-start succeeded on a store that had no file
C3_Witness ==
    /\ last.op = "start" /\ last.dry /\ last.res.ok
    /\ last.launch.printed.some /\ last.day = 1
    /\ written[1] = Saved(<<"0", "9", ":", "0", "5">>, FALSE)

\* the end mail type of the templates file and the configuration on disk
EndTypeOnDisk == tmplFile.members["remote_work_end"].cfg

\* C4: when the most recent successful store write for today recorded S and
\* work-end runs at E, the draft's subject is the subject template formatted
\* with E as {time} and its body is the body template with every {work_time}
\* replaced by S, '-', E.
C4_EndAfterStart ==
    (last.op = "end" /\ last.draft.built /\ written[last.day].some) =>
        /\ SubjectAsStr(last.draft.d.subject) =
              FormatSubject(EndTypeOnDisk, cfgFile.value.department,
                            cfgFile.value.from, last.now)
        /\ MailBodyAsStr(last.draft.d.body) =
              Replace(EndTypeOnDisk.body_template, TokWorkTime,
                      written[last.day].v \o <<"-">> \o last.now)

\* work-start at 09:05 and work-end at 18:30 gave the range 09:05-18:30
C4_Witness ==
    /\ last.op = "end" /\ last.draft.built
    /\ written[last.day] = Saved(<<"0", "9", ":", "0", "5">>, FALSE)
    /\ MailBodyAsStr(last.draft.d.body) = <<"w", " ", "0", "9", ":", "0", "5", "-", "1", "8", ":", "3", "0", " ", "0", "9", ":", "0", "5", "-", "1", "8", ":", "3", "0", ".">>
    /\ SubjectAsStr(last.draft.d.subject) = <<"T", " ", "e", " ", "1", "8", ":", "3", "0">>

\* C5: when the store has no entry for today (no file, an empty map, or
\* entries for other dates only), work-end neither panics nor fails on that
\* account, and the {work_time} value of its body is `--:--`, '-', end time.
C5_EndWithoutStart ==
    (last.op = "end" /\ StoreLacks(file, last.day)) =>
        /\ last.step # "sentinel"
        /\ last.step = "load" => last.res.kind = "InternalServerError"
        /\ last.draft.built =>
                 MailBodyAsStr(last.draft.d.body) =
                       Replace(EndTypeOnDisk.body_template, TokWorkTime,
                               <<"-", "-", ":", "-", "-">> \o <<"-">> \o last.now)

\* work-end ran on a store whose only entry is for another date
C5_Witness ==
    /\ last.op = "end" /\ last.res.ok /\ StoreLacks(file, last.day)
    /\ file # NoFile /\ FromStr(file).val # <<>>
    /\ MailBodyAsStr(last.draft.d.body) = <<"w", " ", "-", "-", ":", "-", "-", "-", "1", "8", ":", "3", "0", " ", "-", "-", ":", "-", "-", "-", "1", "8", ":", "3", "0", ".">>

\* work-end ran with no store file
C5_WitnessNoFile ==
    /\ last.op = "end" /\ last.res.ok /\ file = NoFile

\* C6: work-end never changes the store file, and a work-start that fails at
\* the configuration, the templates or the mail-type lookup leaves it
\* unchanged and dispatches nothing.
C6_OnlyStartWrites ==
    [][/\ last'.op = "end" => file' = file
       /\ (last'.op = "start" /\ last'.step \in {"config", "templates", "lookup"})
             => (file' = file /\ last'.launch = NoLaunch)]_vars

\* a live work-end succeeded against a store written by a work-start
C6_Witness ==
    /\ last.op = "end" /\ last.res.ok /\ ~last.dry
    /\ written[last.day].some /\ written[last.day].v # EarlierTime

\* a work-start failed at the mail-type lookup
C6_WitnessLookup ==
    /\ last.op = "start" /\ last.step = "lookup" /\ file # NoFile

----------------------------------------------------------------------------
(* SpecValue: Subject::new, WorkTime::new and MailBody::to_crlf over short *)
(* strings *)

SubjectInputs == StringsUpTo({"a", " ", "\t", "\f"}, MaxStrLen)

WorkTimeInputs == StringsUpTo({"1", ":", "-"}, MaxStrLen + 3)

BodyInputs == StringsUpTo({"a", "\n", "\r"}, MaxStrLen + 1)

ValueInputs == SubjectInputs \cup WorkTimeInputs \cup BodyInputs

InitValue ==
    /\ logDir = "absent" /\ file = NoFile /\ written = <<>>
    /\ book = NotLoaded /\ cfgFile = NoConfigFile /\ tmplFile = NoConfigFile
    /\ client = NoClient
    /\ today = 1
    /\ \E s \in ValueInputs : last = [op |-> "input", arg |-> s]

ValueSubjectNew ==
    /\ last.op = "input"
    /\ last' = [op |-> "subject_new", arg |-> last.arg,
                res |-> SubjectNew(last.arg)]
    /\ UNCHANGED <<logDir, file, written, book, cfgFile, tmplFile, client, today>>

ValueWorkTimeNew ==
    /\ last.op = "input"
    /\ last' = [op |-> "work_time_new", arg |-> last.arg,
                res |-> WorkTimeNew(last.arg)]
    /\ UNCHANGED <<logDir, file, written, book, cfgFile, tmplFile, client, today>>

ValueToCrlf ==
    /\ last.op = "input"
    /\ last' = [op |-> "to_crlf", arg |-> last.arg,
                out |-> ToCrlf(MailBodyNew(last.arg))]
    /\ UNCHANGED <<logDir, file, written, book, cfgFile, tmplFile, client, today>>

NextValue ==
    \/ ValueSubjectNew
    \/ ValueWorkTimeNew
    \/ ValueToCrlf

SpecValue == InitValue /\ [][NextValue]_vars

\* C11: Subject::new(s) succeeds iff s has a character that is not
\* whitespace; on success as_str() is s untrimmed; on failure the kind is
\* UnavailableForLegalReasons.
C11_SubjectNonBlank ==
    last.op = "subject_new" =>
        /\ last.res.ok <=> (\E i \in 1..Len(last.arg) : ~IsWhitespace(last.arg[i]))
        /\ last.res.ok => SubjectAsStr(last.res.val) = last.arg
        /\ ~last.res.ok => last.res.kind = "UnavailableForLegalReasons"

\* a subject with whitespace on both sides of its text was accepted as given
C11_Witness ==
    /\ last.op = "subject_new" /\ last.res.ok
    /\ Len(last.arg) >= 3
    /\ IsWhitespace(last.arg[1]) /\ IsWhitespace(last.arg[Len(last.arg)])

\* a non-empty subject of whitespace only was rejected
C11_WitnessBlank ==
    /\ last.op = "subject_new" /\ ~last.res.ok /\ Len(last.arg) >= 2

\* the HH:MM shape: five characters, one ':' and that one in the middle
HasWorkTimeShape(t) ==
    Len(t) = 5 /\ ByteLen(t) = 5 /\ CountChar(t, ":") = 1 /\ t[3] = ":"

\* C12: WorkTime::new accepts exactly the strings of length 5 with exactly
\* one ':' at position 2, and rejects every other string with kind
\* UnavailableForLegalReasons.
C12_WorkTimeShape ==
    last.op = "work_time_new" =>
        /\ last.res.ok <=> HasWorkTimeShape(last.arg)
        /\ ~last.res.ok => last.res.kind = "UnavailableForLegalReasons"

\* a five-character string without the shape was given to WorkTime::new
C12_Witness ==
    /\ last.op = "work_time_new"
    /\ Len(last.arg) = 5 /\ ~HasWorkTimeShape(last.arg)

\* the number of line feeds before position i of s
FeedsBefore(s, i) == CountChar(SubSeq(s, 1, i - 1), "\n")

\* C13: to_crlf puts CR LF in the place of every line feed and keeps every
\* other character in order: each line feed of the output follows a carriage
\* return, and an input CR LF becomes CR CR LF.
C13_ToCrlf ==
    last.op = "to_crlf" =>
        LET s == last.arg
            o == last.out
        IN  /\ Len(o) = Len(s) + CountChar(s, "\n")
            /\ \A i \in 1..Len(s) :
                  LET j == i + FeedsBefore(s, i)
                  IN  IF s[i] = "\n"
                      THEN o[j] = "\r" /\ o[j + 1] = "\n"
                      ELSE o[j] = s[i]
            /\ \A j \in 1..Len(o) :
                  o[j] = "\n" => j > 1 /\ o[j - 1] = "\r"

\* a body holding a CR LF pair and other text was rendered
C13_Witness ==
    /\ last.op = "to_crlf"
    /\ \E i \in 1..(Len(last.arg) - 1) :
          last.arg[i] = "\r" /\ last.arg[i + 1] = "\n"
    /\ Contains(last.arg, "a")
    /\ \E j \in 1..(Len(last.out) - 2) :
          SubSeq(last.out, j, j + 2) = <<"\r", "\r", "\n">>

----------------------------------------------------------------------------
(* SpecTemplate: format_subject over short templates and values that may *)
(* themselves hold placeholder text *)

\* the pieces a template is put together from
TemplateAtoms == {TokDepartment, TokFrom, TokTime, <<"x">>, <<"{", "f", "r">>}

RECURSIVE Flatten(_)
Flatten(ss) == IF ss = <<>> THEN <<>> ELSE Head(ss) \o Flatten(Tail(ss))

SubjectTemplateInputs ==
    {Flatten(ss) : ss \in StringsUpTo(TemplateAtoms, MaxStrLen)}

DepartmentInputs == {<<"D">>, TokFrom, <<"o", "m", "}">>, <<>>}
FromInputs == {<<"F">>, TokTime, TokDepartment}
TimeInputs == {<<"0", "9", ":", "0", "5">>, TokFrom, TokTime}

InitTemplate ==
    /\ logDir = "absent" /\ file = NoFile /\ written = <<>>
    /\ book = NotLoaded /\ cfgFile = NoConfigFile /\ tmplFile = NoConfigFile
    /\ client = NoClient
    /\ today = 1
    /\ \E tpl \in SubjectTemplateInputs, d \in DepartmentInputs,
          f \in FromInputs, t \in TimeInputs :
          last = [op |-> "input", tpl |-> tpl, department |-> d, from |-> f,
                  time |-> t]

TemplateFormatSubject ==
    /\ last.op = "input"
    /\ last' = [op |-> "format_subject", tpl |-> last.tpl,
                department |-> last.department, from |-> last.from,
                time |-> last.time,
                out |-> FormatSubject(MailType(<<>>, <<>>, last.tpl, <<>>),
                                      last.department, last.from, last.time)]
    /\ UNCHANGED <<logDir, file, written, book, cfgFile, tmplFile, client, today>>

NextTemplate == TemplateFormatSubject

SpecTemplate == InitTemplate /\ [][NextTemplate]_vars

\* where tok first occurs in s, 0 if nowhere
FindFirst(s, tok) ==
    LET at == {i \in 1..(Len(s) - Len(tok) + 1) :
                  SubSeq(s, i, i + Len(tok) - 1) = tok}
    IN  IF at = {} THEN 0 ELSE CHOOSE i \in at : \A j \in at : i <= j

\* s cut at every occurrence of tok, taken left to right
RECURSIVE SplitOn(_, _)
SplitOn(s, tok) ==
    LET i == FindFirst(s, tok)
    IN  IF i = 0 THEN <<s>>
        ELSE <<SubSeq(s, 1, i - 1)>> \o SplitOn(SubSeq(s, i + Len(tok), Len(s)), tok)

RECURSIVE JoinWith(_, _)
JoinWith(pieces, v) ==
    IF Len(pieces) = 1 THEN pieces[1]
    ELSE pieces[1] \o v \o JoinWith(Tail(pieces), v)

\* one whole-string pass: every occurrence of tok gives way to v
OnePass(s, tok, v) == JoinWith(SplitOn(s, tok), v)

Occurrences(s, tok) == Len(SplitOn(s, tok)) - 1

\* C14: format_subject is three successive whole-string passes over the
\* subject template, {department} then {from} then {time}, each applied once
\* to the result of the one before.
C14_ThreePasses ==
    last.op = "format_subject" =>
        last.out = OnePass(OnePass(OnePass(last.tpl, TokDepartment, last.department),
                                   TokFrom, last.from),
                           TokTime, last.time)

\* a template with all three tokens was filled in, and the token text a later
\* pass put in was not filled in again
C14_Witness ==
    /\ last.op = "format_subject"
    /\ Occurrences(last.tpl, TokDepartment) = 1
    /\ Occurrences(last.tpl, TokFrom) = 1
    /\ Occurrences(last.tpl, TokTime) = 1
    /\ last.from = TokDepartment
    /\ Occurrences(last.out, TokDepartment) = 1

\* the template with each token replaced by its value in a single scan, the
\* values themselves left as given
RECURSIVE SubstituteAll(_, _, _, _)
SubstituteAll(tpl, department, from, time) ==
    IF tpl = <<>> THEN <<>>
    ELSE IF StartsWith(tpl, TokDepartment)
    THEN department \o SubstituteAll(SubSeq(tpl, Len(TokDepartment) + 1, Len(tpl)),
                                     department, from, time)
    ELSE IF StartsWith(tpl, TokFrom)
    THEN from \o SubstituteAll(SubSeq(tpl, Len(TokFrom) + 1, Len(tpl)),
                               department, from, time)
    ELSE IF StartsWith(tpl, TokTime)
    THEN time \o SubstituteAll(SubSeq(tpl, Len(TokTime) + 1, Len(tpl)),
                               department, from, time)
    ELSE <<Head(tpl)>> \o SubstituteAll(Tail(tpl), department, from, time)

\* C15 as stated: every inserted value appears in the output as given, even
\* when it holds placeholder text (a department holding {from} is not
\* rewritten with the sender).
C15_ValuesSurvive ==
    last.op = "format_subject" =>
        last.out = SubstituteAll(last.tpl, last.department, last.from, last.time)

\* no pass leaves behind a token of a later pass that the template did not hold
NoLaterToken(tpl, department, from) ==
    LET p1 == OnePass(tpl, TokDepartment, department)
        p2 == OnePass(p1, TokFrom, from)
    IN  /\ Occurrences(p1, TokFrom) = Occurrences(tpl, TokFrom)
        /\ Occurrences(p2, TokTime) = Occurrences(tpl, TokTime)

\* C15 amended: inserted values appear in the output as given when no pass
\* leaves behind a token of a later pass; placeholder text of a pass already
\* done survives, and the time value, inserted last, is never rewritten.
C15_ValuesSurviveEarlierTokens ==
    last.op = "format_subject" =>
        /\ NoLaterToken(last.tpl, last.department, last.from) =>
              last.out = SubstituteAll(last.tpl, last.department, last.from,
                                       last.time)
        /\ Occurrences(last.out, TokTime) >=
              IF last.time = TokTime
              THEN Occurrences(OnePass(OnePass(last.tpl, TokDepartment,
                                               last.department),
                                       TokFrom, last.from), TokTime)
              ELSE 0

\* a sender holding {department} and a time holding {from} were inserted and
\* are in the output as given
C15_Witness ==
    /\ last.op = "format_subject"
    /\ NoLaterToken(last.tpl, last.department, last.from)
    /\ Occurrences(last.tpl, TokFrom) = 1 /\ last.from = TokDepartment
    /\ Occurrences(last.tpl, TokTime) = 1 /\ last.time = TokFrom
    /\ Occurrences(last.out, TokDepartment) = 1
    /\ Occurrences(last.out, TokFrom) = 1

\* a department holding {from} was inserted and then rewritten with the sender
C15_WitnessRewritten ==
    /\ last.op = "format_subject"
    /\ last.tpl = TokDepartment /\ last.department = TokFrom
    /\ last.from = <<"F">> /\ last.out = <<"F">>

----------------------------------------------------------------------------
(* Claims about the drafts the use case builds *)

StartTypeOnDisk == tmplFile.members["remote_work_start"].cfg

\* the {work_time} value of a work-end: today's stored start time, or the
\* sentinel when the store has none, then '-' and the end time
WorkRangeOf(f, d, end) ==
    (IF StoreLacks(f, d) THEN Sentinel
     ELSE GetStartTime(FromStr(f).val, DateToString(DateOf(d))).v)
        \o <<"-">> \o end

\* C16: with a work time, format_body gives the body template with every
\* {work_time} replaced by it and nothing else changed (the work-end body);
\* without one it gives the template verbatim, and work-start formats its
\* body without one, so its body is the template text as it is on disk.
C16_FormatBody ==
    /\ (last.op = "start" /\ last.draft.built) =>
          /\ MailBodyAsStr(last.draft.d.body) = StartTypeOnDisk.body_template
          /\ FormatBody(StartTypeOnDisk, None) = StartTypeOnDisk.body_template
    /\ (last.op = "end" /\ last.draft.built) =>
          LET w == WorkRangeOf(file, last.day, last.now)
          IN  /\ MailBodyAsStr(last.draft.d.body) =
                    OnePass(EndTypeOnDisk.body_template, TokWorkTime, w)
              /\ FormatBody(EndTypeOnDisk, Some(w)) =
                    JoinWith(SplitOn(EndTypeOnDisk.body_template, TokWorkTime), w)

\* a work-start built a draft whose body still holds {time} and {work_time}
C16_Witness ==
    /\ last.op = "start" /\ last.draft.built
    /\ Occurrences(MailBodyAsStr(last.draft.d.body), TokWorkTime) = 1
    /\ Occurrences(MailBodyAsStr(last.draft.d.body), TokTime) = 1

\* a work-end built a draft from a body template with two {work_time} tokens
C16_WitnessEnd ==
    /\ last.op = "end" /\ last.draft.built
    /\ Occurrences(EndTypeOnDisk.body_template, TokWorkTime) = 2
    /\ Occurrences(MailBodyAsStr(last.draft.d.body), TokWorkTime) = 0

----------------------------------------------------------------------------
(* SpecCompose: the compose-argument of drafts with few or no recipients, *)
(* quotes and line breaks *)

ComposeAddressInputs ==
    {EmailAddressParse(a).val : a \in {<<"a", "@", "x">>, <<"b", "'", "@", "x">>}}

ComposeListInputs == StringsUpTo(ComposeAddressInputs, MaxKeys)

ComposeSubjectInputs ==
    {SubjectNew(x).val : x \in {<<"s">>, <<"'">>, <<"a", " ", "'", "b", "'">>}}

ComposeBodyInputs ==
    {MailBodyNew(x) : x \in {<<>>, <<"b", "\n", "c">>, <<"'", "\r", "\n">>, <<"i", "t", "'", "s">>}}

InitCompose ==
    /\ logDir = "absent" /\ file = NoFile /\ written = <<>>
    /\ book = NotLoaded /\ cfgFile = NoConfigFile /\ tmplFile = NoConfigFile
    /\ client \in Clients
    /\ today = 1
    /\ \E to \in ComposeListInputs, cc \in ComposeListInputs,
          subject \in ComposeSubjectInputs, body \in ComposeBodyInputs :
          last = [op |-> "input", draft |-> MailDraftNew(to, cc, subject, body)]

ComposeBuildArg ==
    /\ last.op = "input"
    /\ last' = [op |-> "build_compose_arg", draft |-> last.draft,
                out |-> BuildComposeArg(last.draft)]
    /\ UNCHANGED <<logDir, file, written, book, cfgFile, tmplFile, client, today>>

NextCompose == ComposeBuildArg

SpecCompose == InitCompose /\ [][NextCompose]_vars

\* the raw strings of an address list
RawAddresses(addrs) == [i \in 1..Len(addrs) |-> EmailAddressAsStr(addrs[i])]

\* the strings of a list with ',' between them, empty for the empty list
CommaJoined(strs) == IF strs = <<>> THEN <<>> ELSE JoinWith(strs, <<",">>)

\* C17: the compose-argument is format=plain,to='T',cc='C',subject='S',body='B'
\* with T and C the raw addresses joined by ',' in list order (empty for an
\* empty list), S the raw subject and B the body in CRLF form, no character
\* of a field escaped, dropped or altered.
C17_ComposeArg ==
    last.op = "build_compose_arg" =>
        last.out =
            <<"f", "o", "r", "m", "a", "t", "=", "p", "l", "a", "i", "n", ",", "t", "o", "=", "'">>
            \o CommaJoined(RawAddresses(last.draft.to))
            \o <<"'", ",", "c", "c", "=", "'">>
            \o CommaJoined(RawAddresses(last.draft.cc))
            \o <<"'", ",", "s", "u", "b", "j", "e", "c", "t", "=", "'">>
            \o SubjectAsStr(last.draft.subject)
            \o <<"'", ",", "b", "o", "d", "y", "=", "'">>
            \o OnePass(MailBodyAsStr(last.draft.body), <<"\n">>, <<"\r", "\n">>)
            \o <<"'">>

\* a draft with no recipients and a single quote in its subject and body
C17_Witness ==
    /\ last.op = "build_compose_arg"
    /\ last.draft.to = <<>> /\ last.draft.cc = <<>>
    /\ Contains(SubjectAsStr(last.draft.subject), "'")
    /\ Contains(MailBodyAsStr(last.draft.body), "'")
    /\ CountChar(last.out, "'") = 10
    /\ StartsWith(last.out, <<"f", "o", "r", "m", "a", "t", "=", "p", "l", "a", "i", "n", ",", "t", "o", "=", "'", "'", ",", "c", "c", "=", "'", "'", ",", "s", "u", "b", "j", "e", "c", "t", "=", "'">>)

\* a draft with two to-addresses, one of them holding a single quote
C17_WitnessList ==
    /\ last.op = "build_compose_arg"
    /\ Len(last.draft.to) = 2 /\ last.draft.to[1] # last.draft.to[2]
    /\ Contains(MailBodyAsStr(last.draft.body), "\n")

\* the mail type an invocation works from
TypeOnDisk(op) == IF op = "start" THEN StartTypeOnDisk ELSE EndTypeOnDisk

\* the address-book addresses of a list of names, in the order of the names
AddressesOf(names) == [i \in 1..Len(names) |-> book.map[names[i]]]

\* the compose-argument an invocation handed over: printed in a dry run,
\* passed to the mail client otherwise
ComposeArgSeen ==
    IF last.dry
    THEN SubSeq(last.launch.printed.v,
                Len(DryRunLine(client.thunderbird_exe_path, <<>>)) + 1,
                Len(last.launch.printed.v))
    ELSE last.argv[3]

\* C18: in a successful work-start or work-end the i-th to (cc) address of
\* the draft, and of the compose-argument, is the address-book address of
\* the i-th name of the template's to_names (cc_names); a name listed k times
\* gives k occurrences of its address.
C18_RecipientOrder ==
    (last.op \in {"start", "end"} /\ last.res.ok) =>
        LET t == TypeOnDisk(last.op)
        IN  /\ RawAddresses(last.draft.d.to) = AddressesOf(t.to_names)
            /\ RawAddresses(last.draft.d.cc) = AddressesOf(t.cc_names)
            /\ StartsWith(ComposeArgSeen,
                   <<"f", "o", "r", "m", "a", "t", "=", "p", "l", "a", "i", "n", ",", "t", "o", "=", "'">>
                   \o CommaJoined(AddressesOf(t.to_names))
                   \o <<"'", ",", "c", "c", "=", "'">>
                   \o CommaJoined(AddressesOf(t.cc_names))
                   \o <<"'", ",", "s", "u", "b", "j", "e", "c", "t", "=", "'">>)

\* a work-end sent to B, A, B: the address of B is listed twice, around A's
C18_Witness ==
    /\ last.op = "end" /\ last.res.ok /\ ~last.dry
    /\ TypeOnDisk("end").to_names = <<NameB, NameA, NameB>>
    /\ RawAddresses(last.draft.d.to) = <<<<"b", "@", "x">>, <<"a", "@", "x">>, <<"b", "@", "x">>>>
    /\ StartsWith(last.argv[3], <<"f", "o", "r", "m", "a", "t", "=", "p", "l", "a", "i", "n", ",", "t", "o", "=", "'", "b", "@", "x", ",", "a", "@", "x", ",", "b", "@", "x", "'", ",", "c", "c", "=", "'", "'", ",", "s", "u", "b", "j", "e", "c", "t", "=", "'">>)

\* a dry-run work-start with one to and one cc recipient
C18_WitnessStart ==
    /\ last.op = "start" /\ last.res.ok /\ last.dry
    /\ Len(last.draft.d.to) = 1 /\ Len(last.draft.d.cc) = 1
    /\ last.draft.d.to # last.draft.d.cc

----------------------------------------------------------------------------
(* SpecConfig: load_configuration over configuration files with blank *)
(* fields and Windows paths *)

ConfigNameInputs == {<<>>, <<" ", "\t">>, <<"T", " ">>}

ConfigExeInputs == StringsUpTo({"c", "\\", "/", " "}, MaxStrLen)

ConfigFileInputs ==
    {UnreadableFile, MalformedFile}
    \cup {ConfigJson(AppConfig(f, d, e)) :
              f \in ConfigNameInputs, d \in ConfigNameInputs, e \in ConfigExeInputs}

InitConfig ==
    /\ logDir = "absent" /\ file = NoFile /\ written = <<>>
    /\ book = NotLoaded /\ tmplFile = NoConfigFile
    /\ client = NoClient
    /\ today = 1 /\ last = NoCall
    /\ cfgFile \in ConfigFileInputs

ConfigLoad ==
    /\ \E fault \in {"none", "cfg_read"} :
          last' = [op |-> "load_configuration", fault |-> fault,
                   res |-> LoadConfiguration(cfgFile, fault)]
    /\ UNCHANGED <<logDir, file, written, book, cfgFile, tmplFile, client, today>>

NextConfig == ConfigLoad

SpecConfig == InitConfig /\ [][NextConfig]_vars

\* the text has a character that is not whitespace
NonBlank(t) == \E i \in 1..Len(t) : ~IsWhitespace(t[i])

\* C19: a configuration returned by load_configuration has from, department
\* and thunderbird_exe non-blank and a thunderbird_exe that is the file's
\* with each backslash turned into '/', all other fields as in the file; a
\* parsed file with one of the three blank fails with
\* UnavailableForLegalReasons.
C19_LoadedConfigValid ==
    last.op = "load_configuration" =>
        /\ last.res.ok =>
              LET c == last.res.val
                  w == cfgFile.value
              IN  /\ NonBlank(c.from) /\ NonBlank(c.department)
                  /\ NonBlank(c.thunderbird_exe)
                  /\ ~Contains(c.thunderbird_exe, "\\")
                  /\ Len(c.thunderbird_exe) = Len(w.thunderbird_exe)
                  /\ \A i \in 1..Len(w.thunderbird_exe) :
                        c.thunderbird_exe[i] =
                            IF w.thunderbird_exe[i] = "\\" THEN "/"
                            ELSE w.thunderbird_exe[i]
                  /\ c = [w EXCEPT !.thunderbird_exe = c.thunderbird_exe]
        /\ (cfgFile.kind = "json" /\ last.fault = "none") =>
              IF /\ NonBlank(cfgFile.value.from)
                 /\ NonBlank(cfgFile.value.department)
                 /\ NonBlank(cfgFile.value.thunderbird_exe)
              THEN last.res.ok
              ELSE ~last.res.ok /\ last.res.kind = "UnavailableForLegalReasons"

\* a file with a Windows path was loaded and the path came back with '/'
C19_Witness ==
    /\ last.op = "load_configuration" /\ last.res.ok
    /\ CountChar(cfgFile.value.thunderbird_exe, "\\") = 2
    /\ CountChar(last.res.val.thunderbird_exe, "/") = 2
    /\ Contains(last.res.val.from, " ")

\* a file whose only blank field is thunderbird_exe was rejected
C19_WitnessBlank ==
    /\ last.op = "load_configuration" /\ last.fault = "none"
    /\ cfgFile.kind = "json"
    /\ NonBlank(cfgFile.value.from) /\ NonBlank(cfgFile.value.department)
    /\ Len(cfgFile.value.thunderbird_exe) >= 1
    /\ ~last.res.ok

\* the template key an operation looks up
KeyOf(op) == IF op = "start" THEN "remote_work_start" ELSE "remote_work_end"

\* C20: an invocation that loaded the configuration and the templates fails
\* at the lookup iff the templates lack its key; it then fails with NotFound,
\* its message naming the key, before taking the time, touching the store,
\* resolving recipients or dispatching.
C20_MissingKey ==
    [][(/\ last'.op \in {"start", "end"}
        /\ last' # last
        /\ last'.step \notin {"config", "templates"})
       => /\ last'.step = "lookup" <=> KeyOf(last'.op) \notin DOMAIN tmplFile.members
          /\ last'.step = "lookup" =>
                /\ ~last'.res.ok
                /\ last'.res.kind = "NotFound"
                /\ last'.res.msg.detail = KeyOf(last'.op)
                /\ last'.now = <<>>
                /\ ~last'.saved
                /\ file' = file /\ logDir' = logDir /\ written' = written
                /\ last'.draft = NoDraft
                /\ last'.launch = NoLaunch /\ last'.argv = <<>>]_vars

\* a work-start over templates that hold only remote_work_end failed at the
\* lookup
C20_Witness ==
    /\ last.op = "start" /\ last.step = "lookup"
    /\ DOMAIN tmplFile.members = {"remote_work_end"}
    /\ last.res.msg.detail = "remote_work_start"

\* a work-end over templates that hold only remote_work_start failed at the
\* lookup
C20_WitnessEnd ==
    /\ last.op = "end" /\ last.step = "lookup"
    /\ DOMAIN tmplFile.members = {"remote_work_start"}
    /\ last.res.msg.detail = "remote_work_end"

----------------------------------------------------------------------------
(* Claims about the errors an invocation surfaces *)

\* the messages of the failures that are I/O failures: file reads, the store
\* write, the directory creation, the subprocess spawn and wait
IoFailureTexts ==
    { "configuration file read failed", "mail_config.json read failed",
      "work time file read failed", "work time file write failed",
      "create directory failed", "thunderbird spawn failed",
      "thunderbird wait failed" }

\* C21: every I/O failure has kind InternalServerError: a failed read in
\* each of the four loaders, a failed store write, a failed directory
\* creation, a failed spawn and a failed wait.
C21_IoFailuresInternal ==
    /\ LoadFromAddressBook(UnreadableBook).kind = "InternalServerError"
    /\ (/\ last.op \in {"start", "end"}
        /\ ~last.res.ok
        /\ last.res.msg.text \in IoFailureTexts)
       => last.res.kind = "InternalServerError"

\* an invocation ended at a failed read of the templates file
C21_Witness ==
    /\ last.op \in {"start", "end"} /\ last.step = "templates"
    /\ last.res.msg.text = "mail_config.json read failed"

----------------------------------------------------------------------------
(* SpecSeq: the store under work-start, work-end, save and load in any
   order *)

InitSeq ==
    /\ \E st \in InitialStores :
          /\ logDir = st.dir
          /\ file = st.file
          /\ written = st.hist
    /\ cfgFile = MainScenario.cfg
    /\ tmplFile = MainScenario.tmpl
    /\ book = MainScenario.book
    /\ client \in Clients
    /\ today = 1
    /\ last = NoCall

\* the clock and the time the operations of this specification are given
SeqClocks == {[h |-> 9, m |-> 5]}
SeqTimes == {WorkTimeNew(<<"0", "9", ":", "3", "0">>).val}

\* what is kept of a work-start or work-end
SeqInvocation(op, day, o) ==
    [op |-> op, day |-> day, res |-> o.res, step |-> o.step, saved |-> o.saved]

SeqWorkStart ==
    /\ \E is_dry_run \in BOOLEAN, clock \in SeqClocks, fault \in Faults,
          first_invalid \in FirstInvalidChoices(tmplFile) :
          \E o \in {SendRemoteWorkStart(Env, is_dry_run, clock, first_invalid, fault)} :
              /\ logDir' = o.dir
              /\ file' = o.file
              /\ written' = IF o.saved
                            THEN [written EXCEPT ![today] = Saved(o.now, FALSE)]
                            ELSE written
              /\ last' = SeqInvocation("start", today, o)
    /\ UNCHANGED <<book, cfgFile, tmplFile, client, today>>

SeqWorkEnd ==
    /\ \E is_dry_run \in BOOLEAN, clock \in SeqClocks, fault \in Faults,
          first_invalid \in FirstInvalidChoices(tmplFile) :
          \E o \in {SendRemoteWorkEnd(Env, is_dry_run, clock, first_invalid, fault)} :
              /\ logDir' = o.dir
              /\ file' = o.file
              /\ last' = SeqInvocation("end", today, o)
    /\ UNCHANGED <<written, book, cfgFile, tmplFile, client, today>>

SeqSave ==
    /\ \E day \in Days, t \in SeqTimes, fault \in StoreFaults :
          LET r == SaveStartTime(logDir, file, DateOf(day), t, fault)
          IN  /\ logDir' = r.dir
              /\ file' = r.file
              /\ written' = IF r.res.ok
                            THEN [written EXCEPT ![day] =
                                     Saved(WorkTimeAsStr(t), FALSE)]
                            ELSE written
              /\ last' = [op |-> "save", day |-> day, res |-> r.res]
    /\ UNCHANGED <<book, cfgFile, tmplFile, client, today>>

SeqSaveToday ==
    /\ \E t \in SeqTimes, fault \in StoreFaults :
          LET r == SaveTodayStartTime(logDir, file, today, t, fault)
          IN  /\ logDir' = r.dir
              /\ file' = r.file
              /\ written' = IF r.res.ok
                            THEN [written EXCEPT ![today] =
                                     Saved(WorkTimeAsStr(t), FALSE)]
                            ELSE written
              /\ last' = [op |-> "save_today", day |-> today, res |-> r.res]
    /\ UNCHANGED <<book, cfgFile, tmplFile, client, today>>

NextSeq ==
    \/ SeqWorkStart
    \/ SeqWorkEnd
    \/ SeqSave
    \/ SeqSaveToday
    \/ StoreLoad
    \/ StoreLoadToday
    \/ NextDay

SpecSeq == InitSeq /\ [][NextSeq]_vars

\* load_start_time_map on the store file, its directory in place and no
\* fault: the map, or the parse error of a file that does not parse
StoreRead(f) == LoadStartTimeMap("dir", f, "none").res

\* the dates a read of the store finds: none when the read fails
DatesRead(r) == IF r.ok THEN DOMAIN r.val ELSE {}

StoreSaves == {"save", "save_today"}
StoreLoads == {"load", "load_today"}

\* the operation recorded in l saved its date: a successful save, or a
\* work-start that got past its save
SavedBy(l) ==
    \/ l.op \in StoreSaves /\ l.res.ok
    \/ l.op = "start" /\ l.saved

\* the operation recorded in l failed writing the store file
WriteFailedBy(l) ==
    /\ l.op \in StoreSaves \cup {"start"}
    /\ ~l.res.ok
    /\ l.res.msg.text = "work time file write failed"

\* the date the operation recorded in l works on, as the store's key
KeyOfDay(l) == DateToString(DateOf(l.day))

\* C22: no step of work-start, work-end, save or load removes a date from
\* the store, and a save of date D changes the entry of D only: every date
\* a read of the store found before the step is found after it, with the
\* value it had.
C22_NeverPruned ==
    [][LET old == StoreRead(file)
           new == StoreRead(file')
       IN  \A k \in DatesRead(old) :
              /\ k \in DatesRead(new)
              /\ \/ new.val[k] = old.val[k]
                 \/ SavedBy(last') /\ k = KeyOfDay(last')]_vars

\* C22 as amended: a step either keeps every date, changing at most the
\* entry of the date a successful save saved, or it is a save (or the save
\* of a work-start) whose write to the file failed and left a file that does
\* not parse; nothing else changes the file.
C22_PrunedOnlyByFailedWrite ==
    [][LET old == StoreRead(file)
           new == StoreRead(file')
       IN  \/ /\ \A k \in DatesRead(old) :
                    /\ k \in DatesRead(new)
                    /\ \/ new.val[k] = old.val[k]
                       \/ SavedBy(last') /\ k = KeyOfDay(last')
              /\ (file' # file) =>
                    /\ SavedBy(last')
                    /\ new.ok
                    /\ DatesRead(new) = DatesRead(old) \cup {KeyOfDay(last')}
           \/ /\ WriteFailedBy(last')
              /\ file' = Malformed
              /\ ~new.ok]_vars

\* a save of the second day succeeded on a file that held the first day, and
\* a read of the file finds both
C22_Witness ==
    /\ SavedBy(last) /\ last.day = 2
    /\ DateToString(DateOf(1)) \in DatesRead(StoreRead(file))
    /\ DateToString(DateOf(2)) \in DatesRead(StoreRead(file))

\* a work-start on the second day failed writing a file that held the first
\* day, and the file no longer parses
C22_WitnessFailedWrite ==
    /\ WriteFailedBy(last) /\ last.op = "start" /\ last.day = 2
    /\ written[1].some
    /\ file = Malformed

\* C23: a load while the store file does not exist succeeds with none and
\* leaves the file absent, and the file comes into existence only in a
\* successful save.
C23_AbsentFileLoad ==
    [][/\ (last'.op \in StoreLoads /\ file = NoFile) =>
             /\ last'.res.ok /\ ~last'.res.val.some
             /\ file' = NoFile
       /\ (file = NoFile /\ file' # NoFile) => SavedBy(last')]_vars

\* C23 as amended: a load while the store file does not exist leaves the
\* file absent; it returns none, unless the store directory is not a
\* directory or cannot be created, and then it fails with
\* InternalServerError; a work-end leaves an absent file absent too; the file
\* comes into existence only in a save, a successful one or one whose write
\* failed after creating the file, and every successful save leaves a file.
C23_AbsentFileLoadDirectory ==
    [][/\ (last'.op \in StoreLoads /\ file = NoFile) =>
             /\ file' = NoFile
             /\ last'.res.ok => ~last'.res.val.some
             /\ ~last'.res.ok => last'.res.kind = "InternalServerError"
             /\ last'.res.ok <=>
                   ~(\/ logDir = "notdir"
                     \/ logDir = "absent" /\ last'.fault = "mkdir")
       /\ (last'.op = "end" /\ file = NoFile) => file' = NoFile
       /\ (file = NoFile /\ file' # NoFile) =>
             \/ SavedBy(last')
             \/ WriteFailedBy(last') /\ file' = Malformed
       /\ (SavedBy(last') /\ last' # last) => FromStr(file').ok]_vars

\* today's load found no file, created the directory and returned none
C23_Witness ==
    /\ last.op = "load_today" /\ last.res.ok /\ ~last.res.val.some
    /\ last.fault = "store_read"
    /\ file = NoFile /\ logDir = "dir"
    /\ \A d \in Days : ~written[d].some

\* a load failed on a store directory that is not a directory
C23_WitnessNoDirectory ==
    /\ last.op \in StoreLoads /\ ~last.res.ok
    /\ file = NoFile /\ logDir = "notdir"

----------------------------------------------------------------------------
(* Claims about the recipients and the launch of the mail client *)

\* the names an invocation asked the address book for that it does not hold,
\* in the order of the asking
MissingNames(op, step) ==
    LET t == TypeOnDisk(op)
        asked == IF step = "resolve_to" THEN t.to_names ELSE t.cc_names
    IN  SelectSeq(asked, LAMBDA n : n \notin DOMAIN book.map)

\* C24: an invocation that stops on a name the address book lacks fails with
\* kind NotFound, its message holds the missing name, and no mail client
\* was spawned.
C24_UnknownRecipient ==
    (/\ last.op \in {"start", "end"}
     /\ last.step \in {"resolve_to", "resolve_cc"}
     /\ ~last.res.ok
     /\ last.res.kind = "NotFound") =>
        /\ MissingNames(last.op, last.step) # <<>>
        /\ FindFirst(last.res.msg.detail,
                     Head(MissingNames(last.op, last.step))) # 0
        /\ last.launch = NoLaunch
        /\ last.argv = <<>>

\* a work-end stopped on a cc name the address book lacks, nothing spawned
C24_Witness ==
    /\ last.op = "end" /\ last.step = "resolve_cc"
    /\ ~last.res.ok /\ last.res.kind = "NotFound"
    /\ MissingNames("end", "resolve_cc") = <<NameC>>
    /\ last.launch = NoLaunch

\* C25: a live compose_mail spawns the mail client once, with the arguments
\* -compose and the compose-argument, and waits once; it fails exactly when
\* the spawn or the wait fails, with kind InternalServerError, and the two
\* failures carry different messages.
C25_SingleAttempt ==
    (last.op \in {"start", "end"} /\ last.draft.built /\ ~last.dry) =>
        /\ last.step \in {"compose", "done"}
        /\ last.launch.spawn_calls = 1
        /\ last.launch.children <= 1
        /\ last.launch.printed = None
        /\ last.argv = <<client.thunderbird_exe_path, "-compose",
                         BuildComposeArg(last.draft.d)>>
        /\ last.res.ok <=> last.launch.waited
        /\ last.launch.waited => last.launch.children = 1
        /\ ~last.res.ok =>
              /\ last.res.kind = "InternalServerError"
              /\ last.res.msg.text =
                    IF last.launch.children = 0 THEN "thunderbird spawn failed"
                    ELSE "thunderbird wait failed"

\* a live work-end whose single spawn failed
C25_Witness ==
    /\ last.op = "end" /\ ~last.dry /\ last.draft.built
    /\ last.launch.spawn_calls = 1 /\ last.launch.children = 0
    /\ ~last.res.ok

\* a live work-start whose wait failed
C25_WitnessWait ==
    /\ last.op = "start" /\ ~last.dry /\ last.draft.built
    /\ last.launch.children = 1 /\ ~last.launch.waited
    /\ ~last.res.ok

\* the thunderbird_exe of the configuration on disk, as load_configuration
\* returns it
ConfiguredExe == LoadConfiguration(cfgFile, "none").val.thunderbird_exe

\* C26: the executable printed by a dry run, and spawned by a live run, is
\* the normalized thunderbird_exe of the configuration the invocation loaded;
\* the dry-run line is '[DRY-RUN] ', the executable, ' -compose ' and the
\* compose-argument.
C26_ConfiguredExe ==
    (last.op \in {"start", "end"} /\ last.draft.built) =>
        IF last.dry
        THEN last.launch.printed =
                Some(<<"[", "D", "R", "Y", "-", "R", "U", "N", "]", " ">>
                     \o ConfiguredExe
                     \o <<" ", "-", "c", "o", "m", "p", "o", "s", "e", " ">>
                     \o BuildComposeArg(last.draft.d))
        ELSE last.argv[1] = ConfiguredExe

\* a dry run that loaded a configuration whose executable is c/tb and
\* printed the executable the adapter was constructed with
C26_Witness ==
    /\ last.op \in {"start", "end"} /\ last.dry /\ last.res.ok
    /\ ConfiguredExe = <<"c", "/", "t", "b">>
    /\ last.launch.printed =
          Some(DryRunLine(<<"t", "b">>, BuildComposeArg(last.draft.d)))

\* C30: in a live run, once the mail client was spawned and the wait
\* returned, compose_mail and the invocation succeed whatever the exit status
\* of the client; an invocation that fails in compose_mail did not get past
\* the spawn or the wait.
C30_ExitStatusIgnored ==
    /\ (last.op \in {"start", "end"} /\ ~last.dry /\ last.launch.waited) =>
          /\ last.launch.exit.some
          /\ last.res.ok /\ last.step = "done"
    /\ (last.op \in {"start", "end"} /\ last.step = "compose") =>
          /\ ~last.launch.waited /\ last.launch.exit = None
          /\ last.res.msg.text \in
                {"thunderbird spawn failed", "thunderbird wait failed"}

\* a live work-start whose mail client exited with a non-zero status
C30_Witness ==
    /\ last.op = "start" /\ ~last.dry /\ last.launch.waited
    /\ last.launch.exit = Some(1)
    /\ last.res.ok

\* a live work-end whose mail client exited with a non-zero status
C30_WitnessEnd ==
    /\ last.op = "end" /\ ~last.dry /\ last.launch.waited
    /\ last.launch.exit = Some(1)
    /\ last.res.ok

----------------------------------------------------------------------------
(* Claims about stored values that are not work times *)

\* the store file holds, for day `d`, a value WorkTime::new rejects
StoredRejected(f, d) ==
    /\ FromStr(f).ok
    /\ GetStartTime(FromStr(f).val, DateToString(DateOf(d))).some
    /\ ~WorkTimeNew(GetStartTime(FromStr(f).val, DateToString(DateOf(d))).v).ok

\* C29: a work-end that reaches the store while today's stored value is one
\* WorkTime::new rejects fails at the load, with kind
\* UnavailableForLegalReasons unless the read itself failed, before any
\* recipient is resolved, any draft built or any mail client launched; and
\* every value a save wrote is one WorkTime::new accepts.
C29_StoredValueRevalidated ==
    /\ (/\ last.op = "end"
        /\ last.step \notin {"config", "templates", "lookup", "now"}
        /\ StoredRejected(file, last.day)) =>
          /\ ~last.res.ok /\ last.step = "load"
          /\ \/ last.res.kind = "UnavailableForLegalReasons"
             \/ last.res.msg.text = "work time file read failed"
          /\ ~last.draft.built
          /\ last.launch = NoLaunch /\ last.argv = <<>>
    /\ \A d \in Days :
          (written[d].some /\ FromStr(file).ok) =>
              /\ ~StoredRejected(file, d)
              /\ LoadStartTime(logDir, file, DateOf(d), "none").res
                    = Ok(Some(<<written[d].v>>))

\* a work-end stopped at the load by the stored value 9:00
C29_Witness ==
    /\ last.op = "end" /\ last.step = "load" /\ ~last.res.ok
    /\ last.res.kind = "UnavailableForLegalReasons"
    /\ StoreHolds(file, last.day, <<"9", ":", "0", "0">>)

\* a work-start on the first day saved a value that loads
C29_WitnessSaved ==
    /\ last.op = "start" /\ last.day = 1 /\ written[1].some
    /\ FromStr(file).ok /\ ~StoredRejected(file, 1)
    /\ tmplFile = MainScenario.tmpl /\ logDir = "dir"

----------------------------------------------------------------------------
(* SpecKind: ErrorKind::as_str and ErrorKind::as_code over pairs of kinds *)

ErrorKinds ==
    { "BadRequest", "Unauthorized", "Forbidden", "NotFound", "RequestTimeout",
      "Conflict", "UnprocessableEntity", "TooManyRequests",
      "UnavailableForLegalReasons", "InternalServerError",
      "ServiceUnavailable", "UnexpectedServerError" }

AsStr(k) ==
    CASE k = "BadRequest" -> "Bad Request"
      [] k = "Unauthorized" -> "Unauthorized"
      [] k = "Forbidden" -> "Forbidden"
      [] k = "NotFound" -> "Not Found"
      [] k = "RequestTimeout" -> "Request Timeout"
      [] k = "Conflict" -> "Conflict"
      [] k = "UnprocessableEntity" -> "Unprocessable Entity"
      [] k = "TooManyRequests" -> "Too Many Requests"
      [] k = "UnavailableForLegalReasons" -> "Unavailable For Legal Reasons"
      [] k = "InternalServerError" -> "Internal Server Error"
      [] k = "ServiceUnavailable" -> "Service Unavailable"
      [] k = "UnexpectedServerError" -> "Unexpected Server Error"

\* an as_code that gives the two server-error kinds the same code
AsCodeShared(k) ==
    CASE k = "BadRequest" -> 400
      [] k = "Unauthorized" -> 401
      [] k = "Forbidden" -> 403
      [] k = "NotFound" -> 404
      [] k = "RequestTimeout" -> 408
      [] k = "Conflict" -> 409
      [] k = "UnprocessableEntity" -> 422
      [] k = "TooManyRequests" -> 429
      [] k = "UnavailableForLegalReasons" -> 451
      [] k = "InternalServerError" -> 500
      [] k = "ServiceUnavailable" -> 503
      [] k = "UnexpectedServerError" -> 500

AsCode(k) ==
    CASE k = "BadRequest" -> 400
      [] k = "Unauthorized" -> 401
      [] k = "Forbidden" -> 403
      [] k = "NotFound" -> 404
      [] k = "RequestTimeout" -> 408
      [] k = "Conflict" -> 409
      [] k = "UnprocessableEntity" -> 422
      [] k = "TooManyRequests" -> 429
      [] k = "UnavailableForLegalReasons" -> 451
      [] k = "InternalServerError" -> 500
      [] k = "ServiceUnavailable" -> 503
      [] k = "UnexpectedServerError" -> 599

InitKind ==
    /\ logDir = "absent" /\ file = NoFile /\ written = <<>>
    /\ book = NotLoaded /\ cfgFile = NoConfigFile /\ tmplFile = NoConfigFile
    /\ client = NoClient
    /\ today = 1
    /\ \E a \in ErrorKinds, b \in ErrorKinds :
          last = [op |-> "input", a |-> a, b |-> b]

KindConvert ==
    /\ last.op = "input"
    /\ last' = [op |-> "as", a |-> last.a, b |-> last.b,
                codes |-> <<AsCode(last.a), AsCode(last.b)>>,
                strs |-> <<AsStr(last.a), AsStr(last.b)>>]
    /\ UNCHANGED <<logDir, file, written, book, cfgFile, tmplFile, client, today>>

NextKind == KindConvert

SpecKind == InitKind /\ [][NextKind]_vars

\* the codes the tests of ErrorKind list
ListedCode ==
    [k \in ErrorKinds |->
        CASE k = "BadRequest" -> 400
          [] k = "Unauthorized" -> 401
          [] k = "Forbidden" -> 403
          [] k = "NotFound" -> 404
          [] k = "RequestTimeout" -> 408
          [] k = "Conflict" -> 409
          [] k = "UnprocessableEntity" -> 422
          [] k = "TooManyRequests" -> 429
          [] k = "UnavailableForLegalReasons" -> 451
          [] k = "InternalServerError" -> 500
          [] k = "ServiceUnavailable" -> 503
          [] k = "UnexpectedServerError" -> 599]

\* C27: as_code gives each of the twelve kinds its listed code, as_str gives
\* each a display string, and two different kinds share neither a code nor a
\* display string.
C27_KindTables ==
    last.op = "as" =>
        /\ last.codes[1] = ListedCode[last.a]
        /\ last.codes[1] \in 0..65535
        /\ last.strs[1] # ""
        /\ last.a # last.b =>
              /\ last.codes[1] # last.codes[2]
              /\ last.strs[1] # last.strs[2]

\* the two server-error kinds converted together
C27_Witness ==
    /\ last.op = "as"
    /\ last.a = "InternalServerError" /\ last.b = "UnexpectedServerError"
    /\ last.codes = <<500, 599>>
    /\ last.strs = <<"Internal Server Error", "Unexpected Server Error">>

----------------------------------------------------------------------------
(* SpecRace: two processes, each running save_start_time once on the same
   store file, their file operations interleaved *)

Procs == {1, 2}

OtherProc(p) == 3 - p

\* a process before its save: the date and the time it will save
RaceProc(day, time) ==
    [pc |-> "start", day |-> day, time |-> time, map |-> StartTimeMapNew,
     res |-> None]

RaceInitialFiles ==
    {NoFile, ToStringPretty(StartTimeMapNew)}
    \cup {ToStringPretty(MapOfHistory(EarlierSave(d))) : d \in Days}

InitRace ==
    /\ logDir \in {"absent", "dir"}
    /\ file \in RaceInitialFiles
    /\ logDir = "absent" => file = NoFile
    /\ written = <<>>
    /\ book = NotLoaded /\ cfgFile = NoConfigFile /\ tmplFile = NoConfigFile
    /\ client = NoClient
    /\ today = 1
    /\ \E d1 \in Days, d2 \in Days, t1 \in StoreTimes, t2 \in StoreTimes :
          /\ d1 # d2
          /\ last = [op |-> "race", overlapped |-> FALSE,
                     proc |-> [p \in Procs |->
                                 IF p = 1 THEN RaceProc(d1, t1)
                                 ELSE RaceProc(d2, t2)]]

\* a step of p taken while the other process is between its load and the end
\* of its write
Overlaps(p) ==
    last.overlapped \/ last.proc[OtherProc(p)].pc \in {"loaded", "opened"}

\* load_start_time_map, then set_start_time on the map just loaded
RaceLoad(p) ==
    /\ last.op = "race" /\ last.proc[p].pc = "start"
    /\ LET me == last.proc[p]
           l == LoadStartTimeMap(logDir, file, "none")
       IN  /\ logDir' = l.dir
           /\ last' = [last EXCEPT
                  !.overlapped = Overlaps(p),
                  !.proc[p] =
                      IF ~l.res.ok
                      THEN [me EXCEPT !.pc = "done", !.res = Some(l.res)]
                      ELSE [me EXCEPT !.pc = "loaded",
                               !.map = SetStartTime(l.res.val,
                                           DateToString(DateOf(me.day)),
                                           WorkTimeAsStr(me.time))]]
    /\ UNCHANGED <<file, written, book, cfgFile, tmplFile, client, today>>

\* save_start_time_map up to the point where fs::write has opened the file:
\* the file exists and is empty, which does not parse
RaceOpen(p) ==
    /\ last.op = "race" /\ last.proc[p].pc = "loaded"
    /\ file' = Malformed
    /\ last' = [last EXCEPT !.overlapped = Overlaps(p),
                            !.proc[p].pc = "opened"]
    /\ UNCHANGED <<logDir, written, book, cfgFile, tmplFile, client, today>>

\* fs::write puts the text at the start of the file; when the other process
\* wrote after this one opened the file, the end of the other text may stay
\* behind this one, and the file is then this text or one that does not parse
RaceWrite(p) ==
    /\ last.op = "race" /\ last.proc[p].pc = "opened"
    /\ \/ file' = ToStringPretty(last.proc[p].map)
       \/ file # Malformed /\ file' = Malformed
    /\ last' = [last EXCEPT !.overlapped = Overlaps(p),
                            !.proc[p].pc = "done",
                            !.proc[p].res = Some(Ok(TRUE))]
    /\ UNCHANGED <<logDir, written, book, cfgFile, tmplFile, client, today>>

NextRace ==
    \E p \in Procs :
        \/ RaceLoad(p)
        \/ RaceOpen(p)
        \/ RaceWrite(p)

SpecRace == InitRace /\ [][NextRace]_vars

\* both saves have returned success
BothSaved ==
    /\ last.op = "race"
    /\ \A p \in Procs :
          /\ last.proc[p].pc = "done"
          /\ last.proc[p].res = Some(Ok(TRUE))

\* the file holds the entry process p saved
HoldsSaveOf(p) ==
    StoreHolds(file, last.proc[p].day, WorkTimeAsStr(last.proc[p].time))

\* C28: when the two saves ran one after the other and both returned
\* success, the file holds both dates with the times saved; only saves that
\* overlapped can leave a file that lacks one of them.
C28_SequentialKeepsBoth ==
    (BothSaved /\ ~last.overlapped) => \A p \in Procs : HoldsSaveOf(p)

\* both saves returned success, the file parses, and it lacks the date of
\* one of them: a lost update
C28_Witness ==
    /\ BothSaved
    /\ last.overlapped
    /\ FromStr(file).ok
    /\ \E p \in Procs :
          /\ StoreLacks(file, last.proc[p].day)
          /\ HoldsSaveOf(OtherProc(p))

\* two saves one after the other, both dates in the file
C28_WitnessSequential ==
    /\ BothSaved
    /\ ~last.overlapped
    /\ \A p \in Procs : HoldsSaveOf(p)

====
